---- MODULE Spec2Model ----
(***************************************************************************)
(* Model of the C++-subset validator: Lexer.tokenize (src/lexer.py),       *)
(* Parser.parse (src/parser.py), SemanticAnalyzer.analyze                  *)
(* (src/analyzer.py) and the driver MainWindow.validate_code               *)
(* (src/main_window.py).                                                   *)
(*                                                                         *)
(* Text is a sequence of one-character strings; a token value, an          *)
(* identifier name and a literal are such sequences too, so that the       *)
(* regular expressions of the lexer and the startswith/len tests of the    *)
(* analyzer are computed character by character.                           *)
(***************************************************************************)
EXTENDS Integers, Sequences, FiniteSets, TLC

VARIABLES
    code_editor,      \* the text of the editor widget
    output_panel,     \* the lines of the output widget
    status_bar,       \* the message of the status bar
    pc,               \* the step validate_code is at, "idle" between clicks
    code,             \* validate_code's local code
    tokens,           \* validate_code's local tokens
    syntax_result,    \* validate_code's local syntax_result
    semantic_result,  \* validate_code's local semantic_result
    stages_run,       \* history: the stages the current run has run
    typed,            \* history: the pieces typed into the editor
    snapshot,         \* history: one earlier run, as it ended
    walk              \* a SemanticAnalyzer walking the children of a Program

vars == <<code_editor, output_panel, status_bar, pc, code, tokens,
          syntax_result, semantic_result, stages_run, typed, snapshot, walk>>

----------------------------------------------------------------------------
(* Character classes used by the regular expressions of Lexer.token_specs. *)

Digit == {"0", "1", "2", "3", "4", "5", "6", "7", "8", "9"}

Lower == {"a", "b", "c", "d", "e", "f", "g", "h", "i", "j", "k", "l", "m",
          "n", "o", "p", "q", "r", "s", "t", "u", "v", "w", "x", "y", "z"}

Upper == {"A", "B", "C", "D", "E", "F", "G", "H", "I", "J", "K", "L", "M",
          "N", "O", "P", "Q", "R", "S", "T", "U", "V", "W", "X", "Y", "Z"}

\* \w
WordChar == Lower \cup Upper \cup Digit \cup {"_"}

\* [a-zA-Z_]
IdentStart == Lower \cup Upper \cup {"_"}

\* [0-9a-fA-F]
HexDigit == Digit \cup {"a", "b", "c", "d", "e", "f", "A", "B", "C", "D", "E", "F"}

\* [ \t\r\f]
Blank == {" ", "\t", "\r", "\f"}

\* [+\-*/%=&|^~!<>?:.]
OperatorChar == {"+", "-", "*", "/", "%", "=", "&", "|", "^", "~", "!", "<",
                 ">", "?", ":", "."}

\* --|\+\+|==|!=|<=|>=|&&|\|\||<<|>>|->|::
OperatorPair == { <<"-", "-">>, <<"+", "+">>, <<"=", "=">>, <<"!", "=">>,
                  <<"<", "=">>, <<">", "=">>, <<"&", "&">>, <<"|", "|">>,
                  <<"<", "<">>, <<">", ">">>, <<"-", ">">>, <<":", ":">> }

\* [(){}\[\];,]
SeparatorChar == {"(", ")", "{", "}", "[", "]", ";", ","}

\* Lexer.keywords
keywords == { <<"c", "h", "a", "r">>, <<"i", "n", "t">>,
              <<"f", "l", "o", "a", "t">>, <<"d", "o", "u", "b", "l", "e">>,
              <<"b", "o", "o", "l">>, <<"l", "o", "n", "g">>,
              <<"s", "h", "o", "r", "t">>, <<"s", "t", "r", "i", "n", "g">>,
              <<"f", "o", "r">>, <<"w", "h", "i", "l", "e">>, <<"d", "o">>,
              <<"r", "e", "t", "u", "r", "n">>, <<"i", "f">>,
              <<"e", "l", "s", "e">>, <<"b", "r", "e", "a", "k">>,
              <<"s", "w", "i", "t", "c", "h">>, <<"c", "a", "s", "e">>,
              <<"d", "e", "f", "a", "u", "l", "t">> }

----------------------------------------------------------------------------
(* The regular expressions, each as the length of its match at position p  *)
(* of a line (0: no match; no pattern matches the empty string).           *)

\* The character at p, or "" past either end of the line.
At(line, p) == IF p >= 1 /\ p <= Len(line) THEN line[p] ELSE ""

\* The number of consecutive characters of class S from position p on.
RECURSIVE RunLen(_, _, _)
RunLen(line, p, S) ==
    IF At(line, p) \in S THEN 1 + RunLen(line, p + 1, S) ELSE 0

\* [ \t\r\f]+
m_whitespace(line, p) == RunLen(line, p, Blank)

\* \n
m_newline(line, p) == IF At(line, p) = "\n" THEN 1 ELSE 0

\* //.*   ('.' is any character but a newline)
m_line_comment(line, p) ==
    IF At(line, p) = "/" /\ At(line, p + 1) = "/"
    THEN 2 + RunLen(line, p + 2, {line[k] : k \in 1..Len(line)} \ {"\n"})
    ELSE 0

\* The first q >= from with "*/" at q, or 0.
RECURSIVE FindClose(_, _)
FindClose(line, q) ==
    IF q + 1 > Len(line) THEN 0
    ELSE IF line[q] = "*" /\ line[q + 1] = "/" THEN q
    ELSE FindClose(line, q + 1)

\* /\*.*?\*/
m_block_comment(line, p) ==
    IF At(line, p) = "/" /\ At(line, p + 1) = "*"
    THEN LET q == FindClose(line, p + 2)
         IN  IF q = 0 THEN 0 ELSE q + 2 - p
    ELSE 0

\* #\w+.*?(?:\n|$)
m_preprocessor(line, p) ==
    IF At(line, p) = "#" /\ At(line, p + 1) \in WordChar
    THEN LET w == RunLen(line, p + 1, WordChar)
             rest == RunLen(line, p + 1 + w,
                            {line[k] : k \in 1..Len(line)} \ {"\n"})
         IN  IF At(line, p + 1 + w + rest) = "\n"
             THEN 1 + w + rest + 1 ELSE 1 + w + rest
    ELSE 0

\* '(?:\\.|[^'\\])'
m_char_literal(line, p) ==
    IF At(line, p) # "'" THEN 0
    ELSE IF At(line, p + 1) = "\\"
         THEN IF At(line, p + 2) \notin {"", "\n"} /\ At(line, p + 3) = "'"
              THEN 4 ELSE 0
         ELSE IF At(line, p + 1) \notin {"", "'"} /\ At(line, p + 2) = "'"
              THEN 3 ELSE 0

\* The position of the closing quote of a string body scanned from q, or 0.
RECURSIVE StringClose(_, _)
StringClose(line, q) ==
    IF q > Len(line) THEN 0
    ELSE IF line[q] = "\"" THEN q
    ELSE IF line[q] = "\\"
         THEN IF At(line, q + 1) \notin {"", "\n"}
              THEN StringClose(line, q + 2) ELSE 0
    ELSE StringClose(line, q + 1)

\* "(?:\\.|[^"\\])*"
m_string_literal(line, p) ==
    IF At(line, p) # "\"" THEN 0
    ELSE LET q == StringClose(line, p + 1)
         IN  IF q = 0 THEN 0 ELSE q + 1 - p

\* (?:[eE][+-]?\d+)?  : the length of the exponent at q, 0 when there is none
ExponentLen(line, q) ==
    IF At(line, q) \in {"e", "E"}
    THEN LET s == IF At(line, q + 1) \in {"+", "-"} THEN 1 ELSE 0
             d == RunLen(line, q + 1 + s, Digit)
         IN  IF d > 0 THEN 1 + s + d ELSE 0
    ELSE 0

\* \d+\.\d*(?:[eE][+-]?\d+)?|\.\d+(?:[eE][+-]?\d+)?|\d+[eE][+-]?\d+
m_float_literal(line, p) ==
    LET d1 == RunLen(line, p, Digit)
    IN  IF d1 > 0 /\ At(line, p + d1) = "."
        THEN LET d2 == RunLen(line, p + d1 + 1, Digit)
             IN  d1 + 1 + d2 + ExponentLen(line, p + d1 + 1 + d2)
        ELSE IF At(line, p) = "." /\ At(line, p + 1) \in Digit
        THEN LET d2 == RunLen(line, p + 1, Digit)
             IN  1 + d2 + ExponentLen(line, p + 1 + d2)
        ELSE IF d1 > 0 /\ ExponentLen(line, p + d1) > 0
        THEN d1 + ExponentLen(line, p + d1)
        ELSE 0

\* 0[xX][0-9a-fA-F]+|\d+
m_integer_literal(line, p) ==
    IF At(line, p) = "0" /\ At(line, p + 1) \in {"x", "X"}
       /\ At(line, p + 2) \in HexDigit
    THEN 2 + RunLen(line, p + 2, HexDigit)
    ELSE RunLen(line, p, Digit)

\* Whether the characters of w stand at p, p + 1, ...
StartsAt(line, p, w) == \A k \in 1..Len(w) : At(line, p + k - 1) = w[k]

\* \b before a word character at p, and \b after a word character at p - 1
WordBoundaryBefore(line, p) == At(line, p - 1) \notin WordChar
WordBoundaryAfter(line, p) == At(line, p) \notin WordChar

\* \btrue\b|\bfalse\b
m_bool_literal(line, p) ==
    IF StartsAt(line, p, <<"t", "r", "u", "e">>)
       /\ WordBoundaryBefore(line, p) /\ WordBoundaryAfter(line, p + 4)
    THEN 4
    ELSE IF StartsAt(line, p, <<"f", "a", "l", "s", "e">>)
            /\ WordBoundaryBefore(line, p) /\ WordBoundaryAfter(line, p + 5)
    THEN 5
    ELSE 0

\* the two-character operators before the single characters
m_operator(line, p) ==
    IF <<At(line, p), At(line, p + 1)>> \in OperatorPair THEN 2
    ELSE IF At(line, p) \in OperatorChar THEN 1
    ELSE 0

m_separator(line, p) == IF At(line, p) \in SeparatorChar THEN 1 ELSE 0

\* [a-zA-Z_]\w*
m_identifier(line, p) ==
    IF At(line, p) \in IdentStart THEN 1 + RunLen(line, p + 1, WordChar) ELSE 0

\* .   (anything but a newline)
m_unknown(line, p) == IF At(line, p) \notin {"", "\n"} THEN 1 ELSE 0

\* Lexer.token_specs: the token type of each pattern, in the order tried.
token_specs ==
    << "WHITESPACE", "WHITESPACE", "COMMENT", "COMMENT", "PREPROCESSOR",
       "CHAR_LITERAL", "STRING_LITERAL", "LITERAL", "LITERAL", "LITERAL",
       "BOOL_LITERAL", "OPERATOR", "SEPARATOR", "IDENTIFIER", "UNKNOWN" >>

\* pattern.match(line, pos) for the k-th pattern: the length matched, or 0.
PatternMatch(k, line, p) ==
    CASE k = 1 -> m_whitespace(line, p)
      [] k = 2 -> m_newline(line, p)
      [] k = 3 -> m_line_comment(line, p)
      [] k = 4 -> m_block_comment(line, p)
      [] k = 5 -> m_preprocessor(line, p)
      [] k = 6 -> m_char_literal(line, p)
      [] k = 7 -> m_string_literal(line, p)
      [] k = 8 -> m_string_literal(line, p)
      [] k = 9 -> m_float_literal(line, p)
      [] k = 10 -> m_integer_literal(line, p)
      [] k = 11 -> m_bool_literal(line, p)
      [] k = 12 -> m_operator(line, p)
      [] k = 13 -> m_separator(line, p)
      [] k = 14 -> m_identifier(line, p)
      [] k = 15 -> m_unknown(line, p)

\* The first pattern of token_specs that matches at p, or 0 when none does.
FirstMatch(line, p) ==
    LET hits == {k \in 1..Len(token_specs) : PatternMatch(k, line, p) > 0}
    IN  IF hits = {} THEN 0
        ELSE CHOOSE k \in hits : \A j \in hits : k <= j

\* Token(token_type, value, line, column)
Token(token_type, value, line, column) ==
    [type |-> token_type, value |-> value, line |-> line, column |-> column]

\* Lines 117-122 as they would be without the keyword test.
TokenTypeOfPattern(k, value) == token_specs[k]

\* The token type appended for pattern k: an identifier that is a keyword is
\* retagged.
TokenTypeOf(k, value) ==
    IF token_specs[k] = "IDENTIFIER" /\ value \in keywords THEN "KEYWORD"
    ELSE token_specs[k]

\* code.split('\n')
RECURSIVE SplitLines(_)
SplitLines(text) ==
    IF \A k \in 1..Len(text) : text[k] # "\n" THEN <<text>>
    ELSE LET n == CHOOSE k \in 1..Len(text) :
                     text[k] = "\n" /\ \A j \in 1..(k - 1) : text[j] # "\n"
         IN  <<SubSeq(text, 1, n - 1)>> \o SplitLines(SubSeq(text, n + 1, Len(text)))

\* The inner while loop of Lexer.tokenize over one line, from position p with
\* the tokens toks so far: the tokens, or the error raised.
RECURSIVE ScanLine(_, _, _, _)
ScanLine(line, line_num, p, toks) ==
    IF p > Len(line) THEN [ok |-> TRUE, tokens |-> toks]
    ELSE LET k == FirstMatch(line, p)
         IN  IF k = 0
             THEN [ok |-> FALSE, tokens |-> <<>>,
                   error |-> [msg |-> "Unknown token", line |-> line_num,
                              column |-> p, text |-> <<line[p]>>]]
             ELSE LET n == PatternMatch(k, line, p)
                      value == SubSeq(line, p, p + n - 1)
                  IN  ScanLine(line, line_num, p + n,
                               IF token_specs[k] # "WHITESPACE"
                               THEN Append(toks, Token(TokenTypeOf(k, value),
                                                       value, line_num, p))
                               ELSE toks)

\* The outer loop of Lexer.tokenize over the lines from line_num on.
RECURSIVE ScanLines(_, _, _)
ScanLines(lines, line_num, toks) ==
    IF line_num > Len(lines) THEN [ok |-> TRUE, tokens |-> toks]
    ELSE LET r == ScanLine(lines[line_num], line_num, 1, toks)
         IN  IF r.ok THEN ScanLines(lines, line_num + 1, r.tokens) ELSE r

\* Lexer(code).tokenize(): [ok |-> TRUE, tokens] or, when the ValueError is
\* raised, [ok |-> FALSE, error].
tokenize(text) == ScanLines(SplitLines(text), 1, <<>>)

----------------------------------------------------------------------------
(* Parser (src/parser.py).  The parser object is the record                *)
(* [tokens, current_index, errors, ast]; current_index counts from 0 as in *)
(* the source.  A rule that returns a node returns [st, node].             *)

\* Python's None as a node value / as a returned node.
None == <<>>

\* ASTNode(node_type, value, children)
ASTNode(node_type, value, children) ==
    [type |-> node_type, value |-> value, children |-> children]

\* A function of the parser that returns None instead of a node.
NoneNode == ASTNode("None", None, <<>>)

\* A diagnostic: the message, the token text it quotes (None when it quotes
\* none) and the <<line, column>> it ends with (<<>> when it gives none).
Diag(msg, text, at) == [msg |-> msg, text |-> text, at |-> at]

\* "... at line {token.line}, column {token.column}"
AtToken(token) == <<token.line, token.column>>

\* Parser(tokens)
Parser(toks) ==
    [tokens |-> toks, current_index |-> 0, errors |-> <<>>,
     ast |-> ASTNode("Program", None, <<>>)]

\* self.current_index >= len(self.tokens)
AtEnd(st) == st.current_index >= Len(st.tokens)

\* self.tokens[self.current_index]
Cur(st) == st.tokens[st.current_index + 1]

\* self.current_index < len(self.tokens) and
\* self.tokens[self.current_index].value == v
CurIs(st, v) == ~AtEnd(st) /\ Cur(st).value = v

\* self.current_index += 1
Advance(st) == [st EXCEPT !.current_index = @ + 1]

\* self.errors.append(d)
AddError(st, d) == [st EXCEPT !.errors = Append(@, d)]

\* self.ast.add_child(node)
AddChild(st, node) == [st EXCEPT !.ast.children = Append(@, node)]

\* node.add_child(child)
add_child(node, child) == [node EXCEPT !.children = Append(@, child)]

\* _skip_comments as it would be if it skipped directives as well.
RECURSIVE SkipCommentsAndDirectives(_)
SkipCommentsAndDirectives(st) ==
    IF ~AtEnd(st) /\ Cur(st).type \in { "COMMENT", "PREPROCESSOR" }
    THEN SkipCommentsAndDirectives(Advance(st))
    ELSE st

\* _skip_comments as it would be if it left the cursor where it is.
SkipNothing(st) == st

\* Parser._skip_comments
RECURSIVE _skip_comments(_)
_skip_comments(st) ==
    IF ~AtEnd(st) /\ Cur(st).type = "COMMENT"
    THEN _skip_comments(Advance(st))
    ELSE st

\* Parser._synchronize
RECURSIVE _synchronize(_)
_synchronize(st) ==
    IF AtEnd(st) THEN st
    ELSE IF Cur(st).value \in { <<";">>, <<"}">> } THEN Advance(st)
    ELSE _synchronize(Advance(st))

\* The operators of the binary levels, lowest precedence first:
\* 1 logical or, 2 logical and, 3 equality, 4 relational, 5 additive,
\* 6 multiplicative.
LevelOps(level) ==
    CASE level = 1 -> { <<"|", "|">> }
      [] level = 2 -> { <<"&", "&">> }
      [] level = 3 -> { <<"=", "=">>, <<"!", "=">> }
      [] level = 4 -> { <<"<">>, <<">">>, <<"<", "=">>, <<">", "=">> }
      [] level = 5 -> { <<"+">>, <<"-">> }
      [] level = 6 -> { <<"*">>, <<"/">>, <<"%">> }

\* The prefix operators of _parse_unary and the postfix ones of _parse_primary.
UnaryOps == { <<"+">>, <<"-">>, <<"!">>, <<"+", "+">>, <<"-", "-">> }
PostfixOps == { <<"+", "+">>, <<"-", "-">> }

RECURSIVE _parse_expression(_), _parse_assignment(_), BinaryLevel(_, _),
          BinaryLoop(_, _, _), Operand(_, _), _parse_unary(_), _parse_primary(_)

\* Parser._parse_primary
_parse_primary(st0) ==
    LET st == _skip_comments(st0)
    IN  IF AtEnd(st)
        THEN [st |-> AddError(st, Diag("Unexpected end of input while parsing primary expression", None, <<>>)),
              node |-> ASTNode("Error", None, <<>>)]
        ELSE
        LET token == Cur(st)
            s1 == Advance(st)
        IN  IF token.type = "LITERAL"
            THEN [st |-> s1, node |-> ASTNode("Literal", token.value, <<>>)]
            ELSE IF token.type = "IDENTIFIER"
            THEN LET id_node == ASTNode("Identifier", token.value, <<>>)
                     s2 == _skip_comments(s1)
                 IN  IF ~AtEnd(s2) /\ Cur(s2).value \in PostfixOps
                     THEN [st |-> Advance(s2),
                           node |-> ASTNode("PostfixOp", Cur(s2).value, <<id_node>>)]
                     ELSE [st |-> s2, node |-> id_node]
            ELSE IF token.value = <<"(">>
            THEN LET e == _parse_expression(s1)
                     s2 == _skip_comments(e.st)
                 IN  IF AtEnd(s2) \/ Cur(s2).value # <<")">>
                     THEN [st |-> AddError(s2, Diag("Expected ')' after expression", None, AtToken(token))),
                           node |-> ASTNode("Error", None, <<>>)]
                     ELSE [st |-> Advance(s2), node |-> e.node]
            ELSE [st |-> AddError(s1, Diag("Unexpected token in expression", token.value, AtToken(token))),
                  node |-> ASTNode("Error", None, <<>>)]

\* Parser._parse_unary
_parse_unary(st0) ==
    LET st == _skip_comments(st0)
    IN  IF ~AtEnd(st) /\ Cur(st).value \in UnaryOps
        THEN LET r == _parse_unary(_skip_comments(Advance(st)))
             IN  [st |-> r.st, node |-> ASTNode("UnaryOp", Cur(st).value, <<r.node>>)]
        ELSE _parse_primary(st)

\* The operand rule as it would be if every level took its operands from the
\* unary rule, all binary operators having one precedence.
OperandUnary(level, st) == _parse_unary(st)

\* The operand rule of a binary level: the next higher level, the unary rule
\* above the multiplicative level.
Operand(level, st) ==
    IF level = 6 THEN _parse_unary(st) ELSE BinaryLevel(level + 1, st)

\* The while loop shared by _parse_logical_or, _parse_logical_and,
\* _parse_equality, _parse_relational, _parse_additive, _parse_multiplicative.
BinaryLoop(level, st0, left) ==
    IF AtEnd(st0) THEN [st |-> st0, node |-> left]
    ELSE LET st == _skip_comments(st0)
         IN  IF ~AtEnd(st) /\ Cur(st).value \in LevelOps(level)
             THEN LET r == Operand(level, _skip_comments(Advance(st)))
                  IN  BinaryLoop(level, r.st,
                                 ASTNode("BinaryOp", Cur(st).value, <<left, r.node>>))
             ELSE [st |-> st, node |-> left]

\* One binary level: an operand, then the loop.
BinaryLevel(level, st) ==
    LET l == Operand(level, st) IN BinaryLoop(level, l.st, l.node)

\* Parser._parse_assignment
_parse_assignment(st0) ==
    LET l == BinaryLevel(1, st0)
        st == _skip_comments(l.st)
    IN  IF CurIs(st, <<"=">>)
        THEN LET r == _parse_assignment(_skip_comments(Advance(st)))
             IN  [st |-> r.st,
                  node |-> ASTNode("Assignment", Cur(st).value, <<l.node, r.node>>)]
        ELSE [st |-> st, node |-> l.node]

\* Parser._parse_expression
_parse_expression(st) ==
    IF AtEnd(st)
    THEN [st |-> AddError(st, Diag("Unexpected end of input while parsing expression", None, <<>>)),
          node |-> ASTNode("Error", None, <<>>)]
    ELSE _parse_assignment(st)

_parse_logical_or(st) == BinaryLevel(1, st)
_parse_logical_and(st) == BinaryLevel(2, st)
_parse_equality(st) == BinaryLevel(3, st)
_parse_relational(st) == BinaryLevel(4, st)
_parse_additive(st) == BinaryLevel(5, st)
_parse_multiplicative(st) == BinaryLevel(6, st)

----------------------------------------------------------------------------
(* Statements.                                                             *)

\* The type keywords _parse_statement sends to _parse_variable_declaration.
DeclarationTypes ==
    { <<"i", "n", "t">>, <<"f", "l", "o", "a", "t">>, <<"l", "o", "n", "g">>, <<"s", "h", "o", "r", "t">>, <<"c", "h", "a", "r">>, <<"d", "o", "u", "b", "l", "e">>, <<"b", "o", "o", "l">>, <<"s", "t", "r", "i", "n", "g">> }

\* The type keywords _parse_for_loop accepts in the init clause.
ForInitTypes == { <<"i", "n", "t">>, <<"f", "l", "o", "a", "t">>, <<"c", "h", "a", "r">>, <<"d", "o", "u", "b", "l", "e">>, <<"b", "o", "o", "l">> }

\* An error message without token text or position.
Plain(msg) == Diag(msg, None, <<>>)

\* self.method(): a call of one parser method by another.
RECURSIVE Call(_, _)

RECURSIVE DeclarationLoop(_, _), BlockLoop(_), CaseBody(_), SwitchLoop(_, _)

\* The literal-shape branch of _parse_variable_declaration for bool, char and
\* string: the token type the initializer must have.
LiteralTypeFor(type_name) ==
    CASE type_name = <<"b", "o", "o", "l">> -> "BOOL_LITERAL"
      [] type_name = <<"c", "h", "a", "r">> -> "CHAR_LITERAL"
      [] type_name = <<"s", "t", "r", "i", "n", "g">> -> "STRING_LITERAL"

LiteralErrorFor(type_name) ==
    CASE type_name = <<"b", "o", "o", "l">> -> "Unexpected token in boolean expression"
      [] type_name = <<"c", "h", "a", "r">> -> "Unexpected token in char expression"
      [] type_name = <<"s", "t", "r", "i", "n", "g">> -> "Unexpected token in string expression"

\* The initializer of one declarator, the cursor after '=' and its comments:
\* [st, node] with the VariableDeclaration node completed.
DeclarationInit(st, type_token, var_node) ==
    IF AtEnd(st) THEN [st |-> st, node |-> var_node]
    ELSE LET value_token == Cur(st)
         IN  IF type_token.value \in { <<"b", "o", "o", "l">>, <<"c", "h", "a", "r">>, <<"s", "t", "r", "i", "n", "g">> }
             THEN IF value_token.type # LiteralTypeFor(type_token.value)
                  THEN [st |-> AddError(st, Diag(LiteralErrorFor(type_token.value),
                                                 value_token.value, AtToken(value_token))),
                        node |-> var_node]
                  ELSE [st |-> Advance(st),
                        node |-> add_child(var_node,
                                           ASTNode("Literal", value_token.value, <<>>))]
             ELSE LET e == Call("_parse_expression", st)
                  IN  [st |-> e.st, node |-> add_child(var_node, e.node)]

\* One iteration of the while True loop of _parse_variable_declaration.
DeclarationLoop(st0, type_token) ==
    LET st == _skip_comments(st0)
    IN  IF AtEnd(st) \/ Cur(st).type # "IDENTIFIER"
        THEN AddError(st, Diag("Expected identifier after", type_token.value,
                               AtToken(type_token)))
        ELSE
        LET var_name == Cur(st)
            var_node == ASTNode("VariableDeclaration", type_token.value,
                                <<ASTNode("Identifier", var_name.value, <<>>)>>)
            s1 == _skip_comments(Advance(st))
            d  == IF CurIs(s1, <<"=">>)
                  THEN DeclarationInit(_skip_comments(Advance(s1)), type_token, var_node)
                  ELSE [st |-> s1, node |-> var_node]
            s2 == _skip_comments(AddChild(d.st, d.node))
        IN  IF AtEnd(s2)
            THEN AddError(s2, Diag("Expected ';' at end of statement", None,
                                   AtToken(var_name)))
            ELSE IF Cur(s2).value = <<",">>
            THEN DeclarationLoop(_skip_comments(Advance(s2)), type_token)
            ELSE IF Cur(s2).value = <<";">>
            THEN Advance(s2)
            ELSE AddError(s2, Diag("Expected ',' or ';' after variable declaration",
                                   None, AtToken(var_name)))

\* Parser._parse_variable_declaration
_parse_variable_declaration(st) == DeclarationLoop(Advance(st), Cur(st))

\* _parse_expression_statement as it would be if it skipped to the next ';'
\* or '}' after its diagnostic, as the switch rule does.
ExpressionStatementSkipping(st0) ==
    LET e == Call("_parse_expression", st0)
        st == _skip_comments(e.st)
    IN  IF AtEnd(st) \/ Cur(st).value # <<";">>
        THEN _synchronize(AddError(st, Diag("Expected ';' after expression", None,
                                            AtToken(IF st.current_index = 0
                                                    THEN st.tokens[Len(st.tokens)]
                                                    ELSE st.tokens[st.current_index]))))
        ELSE AddChild(Advance(st), e.node)

\* Parser._parse_expression_statement
_parse_expression_statement(st0) ==
    LET e == Call("_parse_expression", st0)
        st == _skip_comments(e.st)
    IN  IF AtEnd(st) \/ Cur(st).value # <<";">>
        THEN AddError(st, Diag("Expected ';' after expression", None,
                               AtToken(IF st.current_index = 0
                                       THEN st.tokens[Len(st.tokens)]
                                       ELSE st.tokens[st.current_index])))
        ELSE AddChild(Advance(st), e.node)

\* The while loop of _parse_block.
BlockLoop(st0) ==
    IF AtEnd(st0) THEN st0
    ELSE LET st == _skip_comments(st0)
         IN  IF CurIs(st, <<"}">>) THEN st
             ELSE BlockLoop(Call("_parse_statement", st))

\* Parser._parse_block: the statements of the block are parsed by
\* _parse_statement, which adds them to self.ast; block_node gets no child.
_parse_block(st0) ==
    IF AtEnd(st0) \/ Cur(st0).value # <<"{">>
    THEN AddError(st0, Plain("Expected '{' to start block"))
    ELSE LET block_node == ASTNode("Block", None, <<>>)
             st == BlockLoop(Advance(st0))
         IN  IF AtEnd(st) \/ Cur(st).value # <<"}">>
             THEN AddError(st, Plain("Expected '}' to end block"))
             ELSE AddChild(Advance(st), block_node)

\* The body of a while, do-while or if: a block when the cursor is at '{',
\* else one statement.
Body(st) == IF CurIs(st, <<"{">>) THEN Call("_parse_block", st) ELSE Call("_parse_statement", st)

\* The result of a rule that returns early with value node.
Return(st, node) == [st |-> st, node |-> node]

\* _parse_for_loop from the body on (lines 529-548).
ForBody(st, for_node) ==
    IF CurIs(st, <<"{">>)
    THEN Return(Call("_parse_block", st), add_child(for_node, ASTNode("Block", None, <<>>)))
    ELSE IF ~AtEnd(st)
    THEN Return(Call("_parse_statement", st),
                add_child(for_node, ASTNode("Statement", None, <<>>)))
    ELSE Return(st, add_child(for_node, ASTNode("Block", None, <<>>)))

\* _parse_for_loop from the increment on (lines 511-527).
ForIncrement(st, for_node) ==
    LET e == IF ~AtEnd(st) /\ Cur(st).value # <<")">>
             THEN Call("_parse_expression", st)
             ELSE Return(st, ASTNode("Empty", None, <<>>))
        s1 == _skip_comments(e.st)
    IN  IF AtEnd(s1) \/ Cur(s1).value # <<")">>
        THEN Return(AddError(s1, Plain("Expected ')' after for loop increment")), NoneNode)
        ELSE ForBody(_skip_comments(Advance(s1)), add_child(for_node, e.node))

\* _parse_for_loop from the condition on (lines 493-509).
ForCondition(st, for_node) ==
    LET e == IF ~AtEnd(st) /\ Cur(st).value # <<";">>
             THEN Call("_parse_expression", st)
             ELSE Return(st, ASTNode("Empty", None, <<>>))
        s1 == _skip_comments(e.st)
    IN  IF AtEnd(s1) \/ Cur(s1).value # <<";">>
        THEN Return(AddError(s1, Plain("Expected ';' after for loop condition")), NoneNode)
        ELSE ForIncrement(_skip_comments(Advance(s1)), add_child(for_node, e.node))

\* The declaration form of the init clause (lines 431-476).
ForInitDeclaration(st0, for_node) ==
    LET var_type == Cur(st0).value
        st == _skip_comments(Advance(st0))
    IN  IF AtEnd(st) \/ Cur(st).type # "IDENTIFIER"
        THEN Return(AddError(st, Plain("Expected identifier after type")), NoneNode)
        ELSE
        LET var_decl == ASTNode("VariableDeclaration", var_type,
                                <<ASTNode("Identifier", Cur(st).value, <<>>)>>)
            s1 == _skip_comments(Advance(st))
            d  == IF CurIs(s1, <<"=">>)
                  THEN LET e == Call("_parse_expression", _skip_comments(Advance(s1)))
                       IN  Return(e.st, add_child(var_decl, e.node))
                  ELSE Return(s1, var_decl)
            s2 == _skip_comments(d.st)
        IN  IF AtEnd(s2) \/ Cur(s2).value # <<";">>
            THEN Return(AddError(s2, Plain("Expected ';' after variable declaration")), NoneNode)
            ELSE ForCondition(_skip_comments(Advance(s2)), add_child(for_node, d.node))

\* The expression form of the init clause (lines 478-489).
ForInitExpression(st0, for_node) ==
    LET e == Call("_parse_expression", st0)
        st == _skip_comments(e.st)
    IN  IF AtEnd(st) \/ Cur(st).value # <<";">>
        THEN Return(AddError(st, Plain("Expected ';' after for loop initialization")), NoneNode)
        ELSE ForCondition(_skip_comments(Advance(st)), add_child(for_node, e.node))

\* Parser._parse_for_loop: returns the ForLoop node (None on an error).
_parse_for_loop(st0) ==
    IF AtEnd(st0) \/ Cur(st0).value # <<"f", "o", "r">>
    THEN Return(AddError(st0, Plain("Expected 'for' keyword")), NoneNode)
    ELSE
    LET st == _skip_comments(Advance(st0))
    IN  IF AtEnd(st) \/ Cur(st).value # <<"(">>
        THEN Return(AddError(st, Plain("Expected '(' after 'for'")), NoneNode)
        ELSE
        LET s1 == _skip_comments(Advance(st))
            for_node == ASTNode("ForLoop", None, <<>>)
        IN  IF ~AtEnd(s1) /\ Cur(s1).type = "KEYWORD" /\ Cur(s1).value \in ForInitTypes
            THEN ForInitDeclaration(s1, for_node)
            ELSE ForInitExpression(s1, for_node)

\* _parse_do_while_loop from the 'while' after the body on (lines 566-600).
DoWhileTail(st0) ==
    LET st == _skip_comments(st0)
    IN  IF AtEnd(st) \/ Cur(st).value # <<"w", "h", "i", "l", "e">>
        THEN AddError(st, Plain("Expected 'while' after do-while loop body"))
        ELSE
        LET s1 == _skip_comments(Advance(st))
        IN  IF AtEnd(s1) \/ Cur(s1).value # <<"(">>
            THEN AddError(s1, Plain("Expected '(' after 'while' in do-while loop"))
            ELSE
            LET e == Call("_parse_expression", _skip_comments(Advance(s1)))
                do_while_node == ASTNode("DoWhileLoop", None, <<e.node>>)
                s2 == _skip_comments(e.st)
            IN  IF AtEnd(s2) \/ Cur(s2).value # <<")">>
                THEN AddError(s2, Plain("Expected ')' after do-while loop condition"))
                ELSE
                LET s3 == _skip_comments(Advance(s2))
                IN  IF AtEnd(s3) \/ Cur(s3).value # <<";">>
                    THEN AddError(s3, Plain("Expected ';' after do-while loop"))
                    ELSE AddChild(Advance(s3), do_while_node)

\* Parser._parse_do_while_loop
_parse_do_while_loop(st0) ==
    IF AtEnd(st0) \/ Cur(st0).value # <<"d", "o">>
    THEN AddError(st0, Plain("Expected 'do' keyword"))
    ELSE DoWhileTail(Body(_skip_comments(Advance(st0))))

\* Parser._parse_while_loop
_parse_while_loop(st0) ==
    IF AtEnd(st0) \/ Cur(st0).value # <<"w", "h", "i", "l", "e">>
    THEN AddError(st0, Plain("Expected 'while' keyword"))
    ELSE
    LET st == _skip_comments(Advance(st0))
    IN  IF AtEnd(st) \/ Cur(st).value # <<"(">>
        THEN AddError(st, Plain("Expected '(' after 'while'"))
        ELSE
        LET e == Call("_parse_expression", _skip_comments(Advance(st)))
            while_node == ASTNode("WhileLoop", None, <<e.node>>)
            s1 == _skip_comments(e.st)
        IN  IF AtEnd(s1) \/ Cur(s1).value # <<")">>
            THEN AddError(s1, Plain("Expected ')' after while condition"))
            ELSE AddChild(Body(_skip_comments(Advance(s1))), while_node)

\* The else branch of _parse_if_statement (lines 678-686).
ElseBranch(st) ==
    IF CurIs(st, <<"e", "l", "s", "e">>) THEN Body(_skip_comments(Advance(st))) ELSE st

\* Parser._parse_if_statement
_parse_if_statement(st0) ==
    IF AtEnd(st0) \/ Cur(st0).value # <<"i", "f">>
    THEN AddError(st0, Plain("Expected 'if' keyword"))
    ELSE
    LET st == _skip_comments(Advance(st0))
    IN  IF AtEnd(st) \/ Cur(st).value # <<"(">>
        THEN AddError(st, Plain("Expected '(' after 'if'"))
        ELSE
        LET e == Call("_parse_expression", _skip_comments(Advance(st)))
            if_node == ASTNode("IfStatement", None, <<e.node>>)
            s1 == _skip_comments(e.st)
        IN  IF AtEnd(s1) \/ Cur(s1).value # <<")">>
            THEN AddError(s1, Plain("Expected ')' after if condition"))
            ELSE AddChild(ElseBranch(_skip_comments(Body(_skip_comments(Advance(s1))))),
                          if_node)

\* The statement loop of a case or default body (lines 780-788, 809-817):
\* _parse_statement returns None, so no statement is added to the node.
CaseBody(st) ==
    IF ~AtEnd(st) /\ Cur(st).value \notin { <<"c", "a", "s", "e">>, <<"d", "e", "f", "a", "u", "l", "t">>, <<"}">> }
    THEN CaseBody(_skip_comments(Call("_parse_statement", st)))
    ELSE st

\* Parser._parse_case_statement
_parse_case_statement(st0) ==
    IF AtEnd(st0) \/ Cur(st0).value # <<"c", "a", "s", "e">>
    THEN Return(AddError(st0, Plain("Expected 'case' keyword")), NoneNode)
    ELSE
    LET e == Call("_parse_expression", _skip_comments(Advance(st0)))
        case_node == ASTNode("CaseStatement", None, <<e.node>>)
        st == _skip_comments(e.st)
    IN  IF AtEnd(st) \/ Cur(st).value # <<":">>
        THEN Return(AddError(st, Plain("Expected ':' after case value")), case_node)
        ELSE Return(CaseBody(_skip_comments(Advance(st))), case_node)

\* Parser._parse_default_statement
_parse_default_statement(st0) ==
    IF AtEnd(st0) \/ Cur(st0).value # <<"d", "e", "f", "a", "u", "l", "t">>
    THEN Return(AddError(st0, Plain("Expected 'default' keyword")), NoneNode)
    ELSE
    LET st == _skip_comments(Advance(st0))
        default_node == ASTNode("DefaultStatement", None, <<>>)
    IN  IF AtEnd(st) \/ Cur(st).value # <<":">>
        THEN Return(AddError(st, Plain("Expected ':' after default")), default_node)
        ELSE Return(CaseBody(_skip_comments(Advance(st))), default_node)

\* The while loop of _parse_switch_statement (lines 730-747):
\* [st, node, returned], returned when the loop left the function.
SwitchLoop(st0, switch_node) ==
    IF AtEnd(st0) \/ Cur(st0).value = <<"}">>
    THEN [st |-> st0, node |-> switch_node, returned |-> FALSE]
    ELSE
    LET st == _skip_comments(st0)
    IN  IF AtEnd(st)
        THEN [st |-> AddError(st, Plain("Unexpected end of file in switch statement")),
              node |-> switch_node, returned |-> TRUE]
        ELSE IF Cur(st).value = <<"c", "a", "s", "e">>
        THEN LET c == Call("_parse_case_statement", st)
             IN  SwitchLoop(c.st, add_child(switch_node, c.node))
        ELSE IF Cur(st).value = <<"d", "e", "f", "a", "u", "l", "t">>
        THEN LET c == Call("_parse_default_statement", st)
             IN  SwitchLoop(c.st, add_child(switch_node, c.node))
        ELSE SwitchLoop(_synchronize(AddError(st,
                            Diag("Expected 'case' or 'default' in switch statement, got",
                                 Cur(st).value, <<>>))),
                        switch_node)

\* Parser._parse_switch_statement: returns the SwitchStatement node.
_parse_switch_statement(st0) ==
    IF AtEnd(st0) \/ Cur(st0).value # <<"s", "w", "i", "t", "c", "h">>
    THEN Return(AddError(st0, Plain("Expected 'switch' keyword")), NoneNode)
    ELSE
    LET st == _skip_comments(Advance(st0))
    IN  IF AtEnd(st) \/ Cur(st).value # <<"(">>
        THEN Return(AddError(st, Plain("Expected '(' after 'switch'")), NoneNode)
        ELSE
        LET e == Call("_parse_expression", _skip_comments(Advance(st)))
            switch_node == ASTNode("SwitchStatement", None, <<e.node>>)
            s1 == _skip_comments(e.st)
        IN  IF AtEnd(s1) \/ Cur(s1).value # <<")">>
            THEN Return(AddError(s1, Plain("Expected ')' after switch expression")), switch_node)
            ELSE
            LET s2 == _skip_comments(Advance(s1))
            IN  IF AtEnd(s2) \/ Cur(s2).value # <<"{">>
                THEN Return(AddError(s2, Plain("Expected '{' after switch condition")), switch_node)
                ELSE
                LET l == SwitchLoop(_skip_comments(Advance(s2)), switch_node)
                IN  IF l.returned THEN Return(l.st, l.node)
                    ELSE IF AtEnd(l.st) \/ Cur(l.st).value # <<"}">>
                    THEN Return(AddError(l.st, Plain("Expected '}' to close switch statement")), l.node)
                    ELSE Return(Advance(l.st), l.node)

\* Parser._parse_break_statement: returns the BreakStatement node.
_parse_break_statement(st0) ==
    IF AtEnd(st0) \/ Cur(st0).value # <<"b", "r", "e", "a", "k">>
    THEN Return(AddError(st0, Plain("Expected 'break' keyword")), NoneNode)
    ELSE
    LET st == _skip_comments(Advance(st0))
        break_node == ASTNode("BreakStatement", None, <<>>)
    IN  IF AtEnd(st) \/ Cur(st).value # <<";">>
        THEN Return(AddError(st, Plain("Expected ';' after break statement")), break_node)
        ELSE Return(Advance(st), break_node)

\* Parser._parse_return_statement: returns the ReturnStatement node.
_parse_return_statement(st0) ==
    IF AtEnd(st0) \/ Cur(st0).value # <<"r", "e", "t", "u", "r", "n">>
    THEN Return(AddError(st0, Plain("Expected 'return' keyword")), NoneNode)
    ELSE
    LET st == _skip_comments(Advance(st0))
        e == IF ~AtEnd(st) /\ Cur(st).value # <<";">>
             THEN LET x == Call("_parse_expression", st)
                  IN  Return(x.st, ASTNode("ReturnStatement", None, <<x.node>>))
             ELSE Return(st, ASTNode("ReturnStatement", None, <<>>))
        s1 == _skip_comments(e.st)
    IN  IF AtEnd(s1) \/ Cur(s1).value # <<";">>
        THEN Return(AddError(s1, Plain("Expected ';' after return statement")), e.node)
        ELSE Return(Advance(s1), e.node)

\* _parse_statement as it would be if the token that starts no statement
\* were reported and left in place (line 87 missing).
StatementKeepingToken(st) ==
    IF AtEnd(st) THEN st
    ELSE
    LET token == Cur(st)
    IN  IF token.type = "KEYWORD"
        THEN IF token.value \in DeclarationTypes THEN Call("_parse_variable_declaration", st)
             ELSE IF token.value = <<"f", "o", "r">> THEN Call("_parse_for_loop", st).st
             ELSE IF token.value = <<"w", "h", "i", "l", "e">> THEN Call("_parse_while_loop", st)
             ELSE IF token.value = <<"d", "o">> THEN Call("_parse_do_while_loop", st)
             ELSE IF token.value = <<"i", "f">> THEN Call("_parse_if_statement", st)
             ELSE IF token.value = <<"s", "w", "i", "t", "c", "h">> THEN Call("_parse_switch_statement", st).st
             ELSE IF token.value = <<"b", "r", "e", "a", "k">> THEN Call("_parse_break_statement", st).st
             ELSE IF token.value = <<"r", "e", "t", "u", "r", "n">> THEN Call("_parse_return_statement", st).st
             ELSE AddError(Advance(st), Diag("Unsupported keyword", token.value,
                                             AtToken(token)))
        ELSE IF token.type = "IDENTIFIER" THEN Call("_parse_expression_statement", st)
        ELSE IF token.type = "SEPARATOR" /\ token.value = <<"{">> THEN Call("_parse_block", st)
        ELSE IF token.type = "SEPARATOR" /\ token.value = <<";">> THEN Advance(st)
        ELSE AddError(st, Diag("Unexpected token", token.value, AtToken(token)))

\* Parser._parse_statement: returns nothing; the nodes _parse_for_loop,
\* _parse_switch_statement, _parse_break_statement and _parse_return_statement
\* return are dropped here.
_parse_statement(st) ==
    IF AtEnd(st) THEN st
    ELSE
    LET token == Cur(st)
    IN  IF token.type = "KEYWORD"
        THEN IF token.value \in DeclarationTypes THEN Call("_parse_variable_declaration", st)
             ELSE IF token.value = <<"f", "o", "r">> THEN Call("_parse_for_loop", st).st
             ELSE IF token.value = <<"w", "h", "i", "l", "e">> THEN Call("_parse_while_loop", st)
             ELSE IF token.value = <<"d", "o">> THEN Call("_parse_do_while_loop", st)
             ELSE IF token.value = <<"i", "f">> THEN Call("_parse_if_statement", st)
             ELSE IF token.value = <<"s", "w", "i", "t", "c", "h">> THEN Call("_parse_switch_statement", st).st
             ELSE IF token.value = <<"b", "r", "e", "a", "k">> THEN Call("_parse_break_statement", st).st
             ELSE IF token.value = <<"r", "e", "t", "u", "r", "n">> THEN Call("_parse_return_statement", st).st
             ELSE AddError(Advance(st), Diag("Unsupported keyword", token.value,
                                             AtToken(token)))
        ELSE IF token.type = "IDENTIFIER" THEN Call("_parse_expression_statement", st)
        ELSE IF token.type = "SEPARATOR" /\ token.value = <<"{">> THEN Call("_parse_block", st)
        ELSE IF token.type = "SEPARATOR" /\ token.value = <<";">> THEN Advance(st)
        ELSE AddError(Advance(st), Diag("Unexpected token", token.value, AtToken(token)))

\* The dispatch of self.method() to the method.
Call(method, st) ==
    CASE method = "_parse_statement" -> _parse_statement(st)
      [] method = "_parse_variable_declaration" -> _parse_variable_declaration(st)
      [] method = "_parse_expression_statement" -> _parse_expression_statement(st)
      [] method = "_parse_block" -> _parse_block(st)
      [] method = "_parse_for_loop" -> _parse_for_loop(st)
      [] method = "_parse_do_while_loop" -> _parse_do_while_loop(st)
      [] method = "_parse_while_loop" -> _parse_while_loop(st)
      [] method = "_parse_if_statement" -> _parse_if_statement(st)
      [] method = "_parse_switch_statement" -> _parse_switch_statement(st)
      [] method = "_parse_case_statement" -> _parse_case_statement(st)
      [] method = "_parse_default_statement" -> _parse_default_statement(st)
      [] method = "_parse_break_statement" -> _parse_break_statement(st)
      [] method = "_parse_return_statement" -> _parse_return_statement(st)
      [] method = "_parse_expression" -> _parse_expression(st)

\* Parser._parse_program.  No rule above raises: every index into self.tokens
\* is guarded by a bounds test, so the except branch is not taken.
RECURSIVE _parse_program(_)
_parse_program(st0) ==
    IF AtEnd(st0) THEN st0
    ELSE LET st == _skip_comments(st0)
         IN  IF ~AtEnd(st) THEN _parse_program(Call("_parse_statement", st)) ELSE st

\* The dictionary of lines 25-28 as it would be if valid told whether the
\* parser reached the end of the tokens.
ParseResultAtEnd(st) ==
    [valid |-> st.current_index >= Len(st.tokens), errors |-> st.errors, ast |-> st.ast]

\* The dictionary Parser.parse returns (lines 25-28).
ParseResult(st) ==
    [valid |-> Len(st.errors) = 0, errors |-> st.errors, ast |-> st.ast]

\* Parser.parse
parse(toks) == ParseResult(_parse_program(Parser(toks)))

----------------------------------------------------------------------------
(* Scope table and semantic checker (src/analyzer.py).  The analyzer       *)
(* object is the record [scopes, errors]: scopes is the chain of Scope     *)
(* objects from the root scope to current_scope (the last one), the parent *)
(* of each being the one before it.  pushed is the history of the walk:    *)
(* the level of every Scope object created after the root, in the order    *)
(* of creation.                                                            *)

\* Symbol(name, type_name, scope_level)
Symbol(name, type_name, scope_level) ==
    [name |-> name, type |-> type_name, scope_level |-> scope_level,
     initialized |-> FALSE, used |-> FALSE]

\* Scope(parent, level): the parent is the scope below it in the chain.
Scope(level) == [symbols |-> <<>>, level |-> level]

\* SemanticAnalyzer(ast)
SemanticAnalyzer == [scopes |-> <<Scope(0)>>, errors |-> <<>>, pushed |-> <<>>]

\* self.current_scope
current_scope(a) == a.scopes[Len(a.scopes)]

\* Scope.define on the current scope
define(a, name, type_name) ==
    LET top == Len(a.scopes)
        syms == a.scopes[top].symbols
        symbol == Symbol(name, type_name, a.scopes[top].level)
    IN  [a EXCEPT !.scopes[top].symbols =
            [n \in (DOMAIN syms) \cup {name} |-> IF n = name THEN symbol ELSE syms[n]]]

\* Scope.resolve from the scope at position k of the chain: the position of
\* the scope whose symbol is returned, 0 for None.
RECURSIVE resolve_from(_, _, _)
resolve_from(scopes, k, name) ==
    IF k = 0 THEN 0
    ELSE IF name \in DOMAIN scopes[k].symbols THEN k
    ELSE resolve_from(scopes, k - 1, name)

\* resolve as it would be if the chain were walked from the root inwards.
ResolveOutermost(a, name) ==
    IF \E k \in 1..Len(a.scopes) : name \in DOMAIN a.scopes[k].symbols
    THEN CHOOSE k \in 1..Len(a.scopes) :
            /\ name \in DOMAIN a.scopes[k].symbols
            /\ \A j \in 1..(k - 1) : name \notin DOMAIN a.scopes[j].symbols
    ELSE 0

\* self.current_scope.resolve(name)
resolve(a, name) == resolve_from(a.scopes, Len(a.scopes), name)

\* The symbol resolve returned, at position k of the chain.
SymbolAt(a, k, name) == a.scopes[k].symbols[name]

\* self.current_scope = Scope(parent_scope, parent_scope.level + 1)
PushScope(a) ==
    [a EXCEPT !.scopes = Append(@, Scope(current_scope(a).level + 1)),
              !.pushed = Append(@, current_scope(a).level + 1)]

\* self.current_scope = parent_scope
PopScope(a) == [a EXCEPT !.scopes = SubSeq(@, 1, Len(@) - 1)]

\* self.errors.append(...)
Report(a, msg, text) == [a EXCEPT !.errors = Append(@, Diag(msg, text, <<>>))]

\* literal_value.startswith('"') or literal_value.startswith("'")
IsQuoted(literal_value) == literal_value[1] \in {"\"", "'"}

\* literal_value.startswith("'") and len(literal_value) == 3
IsCharLiteral(literal_value) == literal_value[1] = "'" /\ Len(literal_value) = 3

\* The literal-shape check of a declaration (lines 73-84).
CheckInitLiteral(a, var_type, var_name, literal_value) ==
    IF var_type = <<"i", "n", "t">>
    THEN IF IsQuoted(literal_value)
         THEN Report(a, "Cannot initialize int variable with string literal", var_name)
         ELSE a
    ELSE IF var_type = <<"f", "l", "o", "a", "t">> \/ var_type = <<"d", "o", "u", "b", "l", "e">>
    THEN IF IsQuoted(literal_value)
         THEN Report(a, IF var_type = <<"f", "l", "o", "a", "t">>
                        THEN "Cannot initialize float variable with string literal"
                        ELSE "Cannot initialize double variable with string literal",
                     var_name)
         ELSE a
    ELSE IF var_type = <<"c", "h", "a", "r">>
    THEN IF ~IsCharLiteral(literal_value)
         THEN Report(a, "Invalid character literal for variable", var_name)
         ELSE a
    ELSE a

\* The literal-shape check of an assignment (lines 118-128).
CheckAssignLiteral(a, symbol_type, var_name, literal_value) ==
    IF symbol_type = <<"i", "n", "t">>
    THEN IF IsQuoted(literal_value)
         THEN Report(a, "Cannot assign string literal to int variable", var_name)
         ELSE a
    ELSE IF symbol_type = <<"f", "l", "o", "a", "t">> \/ symbol_type = <<"d", "o", "u", "b", "l", "e">>
    THEN IF IsQuoted(literal_value)
         THEN Report(a, IF symbol_type = <<"f", "l", "o", "a", "t">>
                        THEN "Cannot assign string literal to float variable"
                        ELSE "Cannot assign string literal to double variable",
                     var_name)
         ELSE a
    ELSE IF symbol_type = <<"c", "h", "a", "r">>
    THEN IF ~IsCharLiteral(literal_value)
         THEN Report(a, "Invalid character literal for variable", var_name)
         ELSE a
    ELSE a

\* The test of line 61 as it would be if it looked the name up with resolve,
\* through the enclosing scopes too.
DefinedAnywhere(a, var_name) == resolve(a, var_name) # 0

\* Whether the VariableDeclaration finds its name in the current scope.
AlreadyDefined(a, var_name) == var_name \in DOMAIN current_scope(a).symbols

\* Line 112 as it would be if the flag were set only on a symbol of the
\* current scope, a symbol of an enclosing scope being left as it is.
MarkAssignedInCurrentScope(a, k, var_name) ==
    IF k = Len(a.scopes)
    THEN [a EXCEPT !.scopes[k].symbols[var_name].initialized = TRUE]
    ELSE a

\* symbol.initialized = True for the symbol of the assignment's left side,
\* done before the right side is analyzed (line 112).
MarkAssigned(a, k, var_name) ==
    [a EXCEPT !.scopes[k].symbols[var_name].initialized = TRUE]

\* Lines 93-97 as they would be without the test of symbol.initialized.
UseSymbolUnchecked(a, k, var_name) ==
    [a EXCEPT !.scopes[k].symbols[var_name].used = TRUE]

\* symbol.used = True, then the use-before-initialization test (lines 93-97).
UseSymbol(a, k, var_name) ==
    LET a1 == [a EXCEPT !.scopes[k].symbols[var_name].used = TRUE]
    IN  IF ~SymbolAt(a1, k, var_name).initialized
        THEN Report(a1, "Variable is used before initialization", var_name)
        ELSE a1

\* The types ++ and -- would accept if every integer type were numeric.
NumericTypesWide ==
    { <<"i", "n", "t">>, <<"f", "l", "o", "a", "t">>, <<"d", "o", "u", "b", "l", "e">>,
      <<"l", "o", "n", "g">>, <<"s", "h", "o", "r", "t">> }

\* The types ++ and -- accept (line 152).
NumericTypes == { <<"i", "n", "t">>, <<"f", "l", "o", "a", "t">>, <<"d", "o", "u", "b", "l", "e">> }

\* The operators of the BinaryOp type check (line 136).
ArithmeticOps == { <<"+">>, <<"-">>, <<"*">>, <<"/">>, <<"%">> }

RECURSIVE _analyze_node(_, _), AnalyzeChildren(_, _, _)

\* for i in range(first, len(node.children)): self._analyze_node(node.children[i])
\* (first counts from 1 here)
AnalyzeChildren(a, node, first) ==
    IF first > Len(node.children) THEN a
    ELSE AnalyzeChildren(_analyze_node(a, node.children[first]), node, first + 1)

\* The VariableDeclaration branch as it would be if the initializer of a
\* redeclaration were analyzed and the existing symbol marked initialized.
DeclarationInitializing(a, node) ==
    LET var_type == node.value
        var_name == node.children[1].value
        a1 == IF AlreadyDefined(a, var_name)
              THEN Report(a, "Variable is already defined in this scope", var_name)
              ELSE define(a, var_name, var_type)
    IN  IF Len(node.children) > 1
        THEN LET init_expr == node.children[2]
                 a2 == _analyze_node(a1, init_expr)
                 a3 == [a2 EXCEPT !.scopes[Len(a2.scopes)].symbols[var_name].initialized = TRUE]
             IN  IF init_expr.type = "Literal"
                 THEN CheckInitLiteral(a3, var_type, var_name, init_expr.value)
                 ELSE a3
        ELSE a1

\* The VariableDeclaration branch (lines 56-84).
AnalyzeDeclaration(a, node) ==
    LET var_type == node.value
        var_name == node.children[1].value
    IN  IF AlreadyDefined(a, var_name)
        THEN Report(a, "Variable is already defined in this scope", var_name)
        ELSE LET a1 == define(a, var_name, var_type)
             IN  IF Len(node.children) > 1
                 THEN LET init_expr == node.children[2]
                          a2 == _analyze_node(a1, init_expr)
                          a3 == [a2 EXCEPT !.scopes[Len(a2.scopes)].symbols[var_name].initialized = TRUE]
                      IN  IF init_expr.type = "Literal"
                          THEN CheckInitLiteral(a3, var_type, var_name, init_expr.value)
                          ELSE a3
                 ELSE a1

\* The Identifier branch (lines 86-97).
AnalyzeIdentifier(a, node) ==
    LET k == resolve(a, node.value)
    IN  IF k = 0 THEN Report(a, "Undefined variable", node.value)
        ELSE UseSymbol(a, k, node.value)

\* The Assignment branch as it would be if the symbol were marked
\* initialized after the right side is analyzed instead of before.
AssignmentMarkedLate(a, node) ==
    IF node.children[1].type # "Identifier"
    THEN Report(a, "Left side of assignment must be a variable", None)
    ELSE LET var_name == node.children[1].value
             k == resolve(a, var_name)
         IN  IF k = 0 THEN Report(a, "Undefined variable", var_name)
             ELSE LET a2 == MarkAssigned(_analyze_node(a, node.children[2]), k, var_name)
                  IN  IF node.children[2].type = "Literal"
                      THEN CheckAssignLiteral(a2, SymbolAt(a2, k, var_name).type,
                                              var_name, node.children[2].value)
                      ELSE a2

\* The Assignment branch as it would be if the right side were analyzed
\* after the diagnostic for a left side that is not a variable (line 103
\* missing).
AssignmentRightAnalyzed(a, node) ==
    IF node.children[1].type # "Identifier"
    THEN _analyze_node(Report(a, "Left side of assignment must be a variable", None),
                       node.children[2])
    ELSE LET var_name == node.children[1].value
             k == resolve(a, var_name)
         IN  IF k = 0 THEN Report(a, "Undefined variable", var_name)
             ELSE LET a1 == MarkAssigned(a, k, var_name)
                      a2 == _analyze_node(a1, node.children[2])
                  IN  IF node.children[2].type = "Literal"
                      THEN CheckAssignLiteral(a2, SymbolAt(a2, k, var_name).type,
                                              var_name, node.children[2].value)
                      ELSE a2

\* The Assignment branch (lines 99-128).
AnalyzeAssignment(a, node) ==
    IF node.children[1].type # "Identifier"
    THEN Report(a, "Left side of assignment must be a variable", None)
    ELSE LET var_name == node.children[1].value
             k == resolve(a, var_name)
         IN  IF k = 0 THEN Report(a, "Undefined variable", var_name)
             ELSE LET a1 == MarkAssigned(a, k, var_name)
                      a2 == _analyze_node(a1, node.children[2])
                  IN  IF node.children[2].type = "Literal"
                      THEN CheckAssignLiteral(a2, SymbolAt(a2, k, var_name).type,
                                              var_name, node.children[2].value)
                      ELSE a2

\* The BinaryOp branch (lines 130-143).
AnalyzeBinaryOp(a, node) ==
    LET a1 == _analyze_node(_analyze_node(a, node.children[1]), node.children[2])
    IN  IF node.value \in ArithmeticOps /\ node.children[1].type = "Identifier"
           /\ node.children[2].type = "Identifier"
        THEN LET l == resolve(a1, node.children[1].value)
                 r == resolve(a1, node.children[2].value)
             IN  IF l # 0 /\ r # 0
                    /\ (SymbolAt(a1, l, node.children[1].value).type = <<"c", "h", "a", "r">>
                        \/ SymbolAt(a1, r, node.children[2].value).type = <<"c", "h", "a", "r">>)
                    /\ node.value = <<"%">>
                 THEN Report(a1, "Cannot use modulo operator '%' with char operands", None)
                 ELSE a1
        ELSE a1

\* The UnaryOp branch (lines 145-153).
AnalyzeUnaryOp(a, node) ==
    LET a1 == _analyze_node(a, node.children[1])
    IN  IF node.value \in { <<"+", "+">>, <<"-", "-">> }
           /\ node.children[1].type = "Identifier"
        THEN LET k == resolve(a1, node.children[1].value)
             IN  IF k # 0 /\ SymbolAt(a1, k, node.children[1].value).type \notin NumericTypes
                 THEN Report(a1, "Cannot use increment/decrement operator with non-numeric type",
                             SymbolAt(a1, k, node.children[1].value).type)
                 ELSE a1
        ELSE a1

\* The IfStatement branch as it would be if the else branch's scope were
\* created before the then branch's scope is left (line 195 missing).
AnalyzeIfUnrestored(a, node) ==
    LET a1 == _analyze_node(a, node.children[1])
        a2 == PushScope(a1)
        a3 == IF Len(node.children) > 1 THEN _analyze_node(a2, node.children[2]) ELSE a2
    IN  IF Len(node.children) > 2
        THEN PopScope(_analyze_node(PushScope(a3), node.children[3]))
        ELSE PopScope(a3)

\* The IfStatement branch (lines 182-201).
AnalyzeIf(a, node) ==
    LET a1 == _analyze_node(a, node.children[1])
        a2 == PushScope(a1)
        a3 == IF Len(node.children) > 1 THEN _analyze_node(a2, node.children[2]) ELSE a2
        a4 == PopScope(a3)
    IN  IF Len(node.children) > 2
        THEN PopScope(_analyze_node(PushScope(a4), node.children[3]))
        ELSE a4

\* SemanticAnalyzer._analyze_node
_analyze_node(a, node) ==
    CASE node.type = "Program" -> AnalyzeChildren(a, node, 1)
      [] node.type = "Block" -> PopScope(AnalyzeChildren(PushScope(a), node, 1))
      [] node.type = "VariableDeclaration" -> AnalyzeDeclaration(a, node)
      [] node.type = "Identifier" -> AnalyzeIdentifier(a, node)
      [] node.type = "Assignment" -> AnalyzeAssignment(a, node)
      [] node.type = "BinaryOp" -> AnalyzeBinaryOp(a, node)
      [] node.type = "UnaryOp" -> AnalyzeUnaryOp(a, node)
      [] node.type = "ForLoop" -> PopScope(AnalyzeChildren(PushScope(a), node, 1))
      [] node.type \in {"WhileLoop", "DoWhileLoop"} ->
            PopScope(AnalyzeChildren(PushScope(_analyze_node(a, node.children[1])), node, 2))
      [] node.type = "IfStatement" -> AnalyzeIf(a, node)
      [] node.type = "ReturnStatement" ->
            IF Len(node.children) > 0 THEN _analyze_node(a, node.children[1]) ELSE a
      [] node.type = "Literal" -> a
      [] node.type = "Error" -> a
      [] OTHER -> AnalyzeChildren(a, node, 1)

\* Line 38 as it would be if valid did not depend on the error list.
AnalyzeResultAlwaysValid(a) == [valid |-> TRUE, errors |-> a.errors]

\* The dictionary SemanticAnalyzer.analyze returns (line 38).
AnalyzeResult(a) == [valid |-> Len(a.errors) = 0, errors |-> a.errors]

\* SemanticAnalyzer.analyze
analyze(ast) == AnalyzeResult(_analyze_node(SemanticAnalyzer, ast))

----------------------------------------------------------------------------
(* MainWindow.validate_code and clear_fields (src/main_window.py).  The    *)
(* three steps of validate_code are three actions; pc is the step the      *)
(* handler is at, "idle" between two clicks.                               *)

\* A line of the output panel: the prefix written before a diagnostic
\* ("" for a fixed line), and the diagnostic or fixed text.
OutLine(prefix, d) == [prefix |-> prefix, msg |-> d.msg, text |-> d.text, at |-> d.at]
Fixed(msg) == OutLine("", Plain(msg))

\* The "  - {error}" lines written for a failed stage.
ErrorLines(errors) == [k \in 1..Len(errors) |-> OutLine("  - ", errors[k])]

\* not code.strip()
IsBlankText(text) == \A k \in 1..Len(text) : text[k] \in Blank \cup {"\n"}

\* Line 195 as it would be if the panel were not cleared.
KeepOutput(panel) == panel

\* self.output_panel.clear()
ClearOutput(panel) == <<>>

\* The value of syntax_result / semantic_result before the step that sets it.
NoResult == [valid |-> FALSE, errors |-> <<>>, ast |-> NoneNode]
\* The observer's note before any was taken.
NoSnapshot == [code |-> <<>>, output |-> <<>>, stages |-> <<>>, other_run |-> FALSE]

\* The test of line 218 as it would be if the step went on whatever the
\* parser returned.
SyntaxAlwaysPassed(result) == TRUE

\* if syntax_result['valid'] (line 218): whether the semantic step follows.
SyntaxPassed(result) == result.valid

\* The bound on the number of pieces of text typed into the editor.
MaxPieces == 4

\* The bound on the number of children the walking analyzer visits.
MaxVisits == 3

\* Lines of source text, named by what they hold; each ends with a newline.
\*   int x;
LineIntX == <<"i", "n", "t", " ", "x", ";", "\n">>
\*   {
LineOpen == <<"{", "\n">>
\*   }
LineClose == <<"}", "\n">>
\*   x=x+1;
LineIncrX == <<"x", "=", "x", "+", "1", ";", "\n">>
\*   int y;
LineIntY == <<"i", "n", "t", " ", "y", ";", "\n">>
\*   int z=y;
LineIntZY == <<"i", "n", "t", " ", "z", "=", "y", ";", "\n">>
\*   x=1
LineAssignNoSemi == <<"x", "=", "1", "\n">>
\*   int y
LineDeclNoSemi == <<"i", "n", "t", " ", "y", "\n">>
\*   x=2;
LineAssign2 == <<"x", "=", "2", ";", "\n">>
\*   char c='ab';
LineCharAB == <<"c", "h", "a", "r", " ", "c", "=", "'", "a", "b", "'", ";", "\n">>
\*   char c='a';
LineCharA == <<"c", "h", "a", "r", " ", "c", "=", "'", "a", "'", ";", "\n">>
\*   @
LineAt == <<"@", "\n">>
\*   x=1;
LineAssign1 == <<"x", "=", "1", ";", "\n">>

\* The pieces of text the user types, each a line of the program.
Pieces == { LineIntX, LineOpen, LineClose, LineIncrX, LineIntY, LineIntZY }

\* Lines of a block with and without the terminating semicolon.
BlockPieces == { LineOpen, LineClose, LineAssignNoSemi, LineDeclNoSemi, LineAssign2 }

\* Lines with characters and literals of the lexer's patterns.
LexPieces == { LineCharAB, LineCharA, LineAt, LineIntX, LineAssign1 }

\* The contents of the files open_file reads: empty, blank, a valid
\* program, one with a syntax error and one with a semantic error.
FileTexts ==
    { <<>>, <<" ", "\n">>, LineIntX, LineAssignNoSemi, LineIntY \o LineIntZY }

\* The statement nodes the walking analyzer visits:
\*   int x;   int y;   int z = y;   x = x + 1;   y = 1;   { int x; }
DeclX == ASTNode("VariableDeclaration", <<"i", "n", "t">>, <<ASTNode("Identifier", <<"x">>, <<>>)>>)
DeclY == ASTNode("VariableDeclaration", <<"i", "n", "t">>, <<ASTNode("Identifier", <<"y">>, <<>>)>>)
DeclZY ==
    ASTNode("VariableDeclaration", <<"i", "n", "t">>,
            <<ASTNode("Identifier", <<"z">>, <<>>), ASTNode("Identifier", <<"y">>, <<>>)>>)
AssignX ==
    ASTNode("Assignment", <<"=">>,
            <<ASTNode("Identifier", <<"x">>, <<>>),
              ASTNode("BinaryOp", <<"+">>,
                      <<ASTNode("Identifier", <<"x">>, <<>>), ASTNode("Literal", <<"1">>, <<>>)>>)>>)
AssignY ==
    ASTNode("Assignment", <<"=">>,
            <<ASTNode("Identifier", <<"y">>, <<>>), ASTNode("Literal", <<"1">>, <<>>)>>)
BlockX == ASTNode("Block", None, <<DeclX>>)
WalkNodes == { DeclX, DeclY, DeclZY, AssignX, AssignY, BlockX }

\* The analyzer before its first visit.
\* Whole programs, as open_file reads them from a file.
\*   a declaration with a number: int x = 5;
TextIntX5 == <<"i", "n", "t", " ", "x", " ", "=", " ", "5", ";", "\n">>
\*   an if with the same name declared in both branches: bool c=true; if(c){int a;} else{int a;}
TextIfElse == <<"b", "o", "o", "l", " ", "c", "=", "t", "r", "u", "e", ";", "\n", "i", "f", "(", "c", ")", "{", "i", "n", "t", " ", "a", ";", "}", "\n", "e", "l", "s", "e", "{", "i", "n", "t", " ", "a", ";", "}", "\n">>
\*   a for loop using its own variable: int x; for(int i=0;i<3;++i){x=i;}
TextFor == <<"i", "n", "t", " ", "x", ";", "\n", "f", "o", "r", "(", "i", "n", "t", " ", "i", "=", "0", ";", "i", "<", "3", ";", "+", "+", "i", ")", "{", "x", "=", "i", ";", "}", "\n">>
\*   a return of an undeclared name: return y;
TextReturn == <<"r", "e", "t", "u", "r", "n", " ", "y", ";", "\n">>
\*   a switch with a break: int x=1; switch(x){case 1:break;}
TextSwitch == <<"i", "n", "t", " ", "x", "=", "1", ";", "\n", "s", "w", "i", "t", "c", "h", "(", "x", ")", "{", "c", "a", "s", "e", " ", "1", ":", "b", "r", "e", "a", "k", ";", "}", "\n">>
\*   an assignment between undeclared names: y=z;
TextAssignUndeclared == <<"y", "=", "z", ";", "\n">>
\*   a declaration that lacks its initializer: int x=;
TextNoInitializer == <<"i", "n", "t", " ", "x", "=", ";", "\n">>
\*   a boolean literal assigned: bool b; b=true;
TextAssignBool == <<"b", "o", "o", "l", " ", "b", ";", "\n", "b", "=", "t", "r", "u", "e", ";", "\n">>
\*   a char literal assigned: char c; c='a';
TextAssignChar == <<"c", "h", "a", "r", " ", "c", ";", "\n", "c", "=", "'", "a", "'", ";", "\n">>
\*   a string literal assigned: string s; s="s";
TextAssignString == <<"s", "t", "r", "i", "n", "g", " ", "s", ";", "\n", "s", "=", "\"", "s", "\"", ";", "\n">>
\*   a number assigned: float f; f=1.5;
TextAssignFloat == <<"f", "l", "o", "a", "t", " ", "f", ";", "\n", "f", "=", "1", ".", "5", ";", "\n">>
\*   a boolean literal as a loop condition: while(true){}
TextWhileTrue == <<"w", "h", "i", "l", "e", "(", "t", "r", "u", "e", ")", "{", "}", "\n">>
\*   a number as a loop condition: while(1){}
TextWhileOne == <<"w", "h", "i", "l", "e", "(", "1", ")", "{", "}", "\n">>

\* The programs with a statement of each form.
ProgramTexts ==
    { TextIntX5, TextIfElse, TextFor, TextReturn,
      TextSwitch, TextAssignUndeclared, TextNoInitializer, TextAssignBool,
      TextAssignChar, TextAssignString, TextAssignFloat, TextWhileTrue,
      TextWhileOne }

\* Statement trees with nested scopes, as the analyzer's branches take them:
\*   { int x; int x; }
\*   for (int i = 0; i < 3; ++i) { x = i; }
\*   while (x) { int a; }
\*   if (x) { int a; } else { int a; }       if (x) { int a; }
\*   x = i;   int a;
DeclA == ASTNode("VariableDeclaration", <<"i", "n", "t">>, <<ASTNode("Identifier", <<"a">>, <<>>)>>)
DeclI ==
    ASTNode("VariableDeclaration", <<"i", "n", "t">>,
            <<ASTNode("Identifier", <<"i">>, <<>>), ASTNode("Literal", <<"0">>, <<>>)>>)
AssignXI ==
    ASTNode("Assignment", <<"=">>,
            <<ASTNode("Identifier", <<"x">>, <<>>), ASTNode("Identifier", <<"i">>, <<>>)>>)
BlockXX == ASTNode("Block", None, <<DeclX, DeclX>>)
BlockA == ASTNode("Block", None, <<DeclA>>)
ForI ==
    ASTNode("ForLoop", None,
            <<DeclI,
              ASTNode("BinaryOp", <<"<">>,
                      <<ASTNode("Identifier", <<"i">>, <<>>), ASTNode("Literal", <<"3">>, <<>>)>>),
              ASTNode("UnaryOp", <<"+", "+">>, <<ASTNode("Identifier", <<"i">>, <<>>)>>),
              ASTNode("Block", None, <<AssignXI>>)>>)
WhileX == ASTNode("WhileLoop", None, <<ASTNode("Identifier", <<"x">>, <<>>), BlockA>>)
IfElseX == ASTNode("IfStatement", None, <<ASTNode("Identifier", <<"x">>, <<>>), BlockA, BlockA>>)
IfX == ASTNode("IfStatement", None, <<ASTNode("Identifier", <<"x">>, <<>>), BlockA>>)
ScopeNodes == { DeclX, AssignY, AssignXI, DeclA, BlockXX, ForI, WhileX, IfElseX, IfX }

NoWalk == [analyzer |-> SemanticAnalyzer, before |-> SemanticAnalyzer, visited |-> <<>>]

Init ==
    /\ code_editor = <<>>
    /\ output_panel = <<>>
    /\ status_bar = "Ready"
    /\ pc = "idle"
    /\ code = <<>>
    /\ tokens = <<>>
    /\ syntax_result = NoResult
    /\ semantic_result = NoResult
    /\ stages_run = <<>>
    /\ typed = <<>>
    /\ snapshot = NoSnapshot
    /\ walk = NoWalk

\* The user types one more piece of text at the end of the editor; typed is
\* the list of the pieces typed since the editor was last empty.
TypeText(P) ==
    /\ pc = "idle"
    /\ output_panel = <<>>
    /\ walk = NoWalk
    /\ Len(typed) < MaxPieces
    /\ \E piece \in P : /\ code_editor' = code_editor \o piece
                        /\ typed' = Append(typed, piece)
    /\ UNCHANGED <<output_panel, status_bar, pc, code, tokens, syntax_result,
                   semantic_result, stages_run, snapshot, walk>>

\* MainWindow.open_file: the editor gets the text of the file.
open_file(T) ==
    /\ pc = "idle"
    /\ \E text \in T : code_editor' = text
    /\ status_bar' = "Opened"
    /\ UNCHANGED <<output_panel, pc, code, tokens, syntax_result, semantic_result,
                   stages_run, typed, snapshot, walk>>

\* MainWindow.clear_fields.  The locals of the last validate_code call are
\* dead by now; they are put back to their initial values.
ClearFields ==
    /\ pc = "idle"
    /\ code_editor' = <<>>
    /\ output_panel' = <<>>
    /\ status_bar' = "Ready"
    /\ typed' = <<>>
    /\ code' = <<>>
    /\ tokens' = <<>>
    /\ syntax_result' = NoResult
    /\ semantic_result' = NoResult
    /\ stages_run' = <<>>
    /\ UNCHANGED <<pc, snapshot, walk>>

\* validate_code, lines 194-201: read the editor, clear the panel, refuse
\* blank text.  The observer's note records that a run on other text began.
ValidateBegin ==
    /\ pc = "idle"
    /\ code' = code_editor
    /\ stages_run' = <<>>
    /\ tokens' = <<>>
    /\ syntax_result' = NoResult
    /\ semantic_result' = NoResult
    /\ IF IsBlankText(code_editor)
       THEN /\ output_panel' = Append(ClearOutput(output_panel),
                                      Fixed("Error: No code to validate."))
            /\ UNCHANGED <<status_bar, pc>>
       ELSE /\ output_panel' = ClearOutput(output_panel)
            /\ status_bar' = "Validating code..."
            /\ pc' = "lexical"
    /\ snapshot' = IF snapshot # NoSnapshot /\ code_editor # snapshot.code
                   THEN [snapshot EXCEPT !.other_run = TRUE]
                   ELSE snapshot
    /\ UNCHANGED <<code_editor, typed, walk>>

\* validate_code, step 1 after the call of tokenize (lines 205-212): r is
\* what the call returned or raised.
LexicalReport(r) ==
    /\ stages_run' = Append(stages_run, [stage |-> "lexical", ok |-> r.ok])
    /\ IF r.ok
       THEN /\ tokens' = r.tokens
            /\ output_panel' = output_panel \o
                  << Fixed("Lexical Analysis: Completed"),
                     OutLine("", Diag("Tokens identified", None, <<Len(r.tokens)>>)) >>
            /\ pc' = "syntax"
            /\ UNCHANGED status_bar
       ELSE /\ output_panel' = Append(output_panel,
                                      OutLine("Lexical Analysis Error: ",
                                              Diag(r.error.msg, r.error.text,
                                                   <<r.error.line, r.error.column>>)))
            /\ status_bar' = "Validation failed at lexical analysis"
            /\ pc' = "idle"
            /\ UNCHANGED tokens

\* validate_code, step 1 (lines 203-212).
LexicalStage ==
    /\ pc = "lexical"
    /\ LexicalReport(tokenize(code))
    /\ UNCHANGED <<code_editor, code, syntax_result, semantic_result, typed,
                   snapshot, walk>>

\* validate_code, step 2 after the call of parse (lines 218-226).
SyntaxReport(r) ==
    /\ syntax_result' = r
    /\ stages_run' = Append(stages_run, [stage |-> "syntax", ok |-> r.valid])
    /\ IF SyntaxPassed(r)
       THEN /\ output_panel' = Append(output_panel, Fixed("Syntax Analysis: Completed"))
            /\ pc' = "semantic"
            /\ UNCHANGED status_bar
       ELSE /\ output_panel' = Append(output_panel, Fixed("Syntax Analysis: Failed"))
                                 \o ErrorLines(r.errors)
            /\ status_bar' = "Validation failed at syntax analysis"
            /\ pc' = "idle"

\* validate_code, step 2 (lines 214-229).  Parser.parse catches what its rules
\* raise, so the except branch of this step is not taken.
SyntaxStage ==
    /\ pc = "syntax"
    /\ SyntaxReport(parse(tokens))
    /\ UNCHANGED <<code_editor, code, tokens, semantic_result, typed, snapshot, walk>>

\* validate_code, step 3 after the call of analyze (lines 235-243, 249-250).
SemanticReport(r) ==
    /\ semantic_result' = [valid |-> r.valid, errors |-> r.errors, ast |-> NoneNode]
    /\ stages_run' = Append(stages_run, [stage |-> "semantic", ok |-> r.valid])
    /\ IF r.valid
       THEN /\ output_panel' = output_panel \o
                  << Fixed("Semantic Analysis: Completed"),
                     Fixed("Code is valid for execution!") >>
            /\ status_bar' = "Validation completed successfully"
       ELSE /\ output_panel' = Append(output_panel, Fixed("Semantic Analysis: Failed"))
                                 \o ErrorLines(r.errors)
            /\ status_bar' = "Validation failed at semantic analysis"

\* validate_code, step 3 (lines 231-246) and the end (lines 249-250).  No
\* branch of _analyze_node raises on a tree of the parser.
SemanticStage ==
    /\ pc = "semantic"
    /\ SemanticReport(analyze(syntax_result.ast))
    /\ pc' = "idle"
    /\ UNCHANGED <<code_editor, code, tokens, syntax_result, typed, snapshot, walk>>

\* One turn of the loop of the Program branch of _analyze_node (lines 41-43):
\* the analyzer visits the next child of the Program, a node of N.
Visit(N) ==
    /\ pc = "idle"
    /\ code_editor = <<>>
    /\ output_panel = <<>>
    /\ Len(walk.visited) < MaxVisits
    /\ \E node \in N :
          walk' = [analyzer |-> _analyze_node(walk.analyzer, node),
                   before |-> walk.analyzer,
                   visited |-> Append(walk.visited, node)]
    /\ UNCHANGED <<code_editor, output_panel, status_bar, pc, code, tokens,
                   syntax_result, semantic_result, stages_run, typed, snapshot>>

\* The observer notes how the run that just ended came out.
TakeSnapshot ==
    /\ pc = "idle"
    /\ output_panel # <<>>
    /\ snapshot' = [code |-> code, output |-> output_panel, stages |-> stages_run,
                    other_run |-> FALSE]
    /\ UNCHANGED <<code_editor, output_panel, status_bar, pc, code, tokens,
                   syntax_result, semantic_result, stages_run, typed, walk>>

\* Typing, validating, clearing, and the analyzer walking a Program.
Next ==
    \/ TypeText(Pieces)
    \/ ClearFields
    \/ ValidateBegin
    \/ LexicalStage
    \/ SyntaxStage
    \/ SemanticStage
    \/ Visit(WalkNodes)

Spec == Init /\ [][Next]_vars

\* The same with the lines of a block.
NextBlock ==
    \/ TypeText(BlockPieces)
    \/ ClearFields
    \/ ValidateBegin
    \/ LexicalStage
    \/ SyntaxStage
    \/ SemanticStage

SpecBlock == Init /\ [][NextBlock]_vars

\* The same with the lines for the lexer.
NextLex ==
    \/ TypeText(LexPieces)
    \/ ClearFields
    \/ ValidateBegin
    \/ LexicalStage
    \/ SyntaxStage
    \/ SemanticStage

SpecLex == Init /\ [][NextLex]_vars

\* Runs on the files opened one after the other, without clearing in between.
NextRuns ==
    \/ open_file(FileTexts)
    \/ ClearFields
    \/ ValidateBegin
    \/ LexicalStage
    \/ SyntaxStage
    \/ SemanticStage
    \/ TakeSnapshot

SpecRuns == Init /\ [][NextRuns]_vars

\* A file is opened in the empty window.
OpenProgram(T) ==
    /\ code_editor = <<>>
    /\ walk = NoWalk
    /\ open_file(T)

\* Programs with a statement of each form, validated one at a time, and the
\* analyzer walking trees with nested scopes.
NextForms ==
    \/ OpenProgram(ProgramTexts)
    \/ ClearFields
    \/ ValidateBegin
    \/ LexicalStage
    \/ SyntaxStage
    \/ SemanticStage
    \/ Visit(ScopeNodes)

SpecForms == Init /\ [][NextForms]_vars

\* The tokens of expressions: a name, a number, an operator of each level,
\* the minus sign (prefix and binary), the assignment sign and parentheses.
ExprTokenValues ==
    { <<"a">>, <<"1">>, <<"|", "|">>, <<"&", "&">>, <<"=", "=">>, <<"<">>,
      <<"+">>, <<"-">>, <<"*">>, <<"=">>, <<"(">>, <<")">> }

\* The longest expression, in tokens.
MaxExprTokens == 6

\* The token the lexer makes of a lexeme, at the given column of line 1.
TokenFor(value, column) == [tokenize(value).tokens[1] EXCEPT !.column = column]

\* The values of a token list.
Values(toks) == [k \in 1..Len(toks) |-> toks[k].value]

\* A lexeme after which an operand is complete, and the number of
\* parentheses open after a token list.
EndsOperand(v) == v \in { <<"a">>, <<"1">>, <<")">> }
OpenCount(vs) ==
    Cardinality({k \in 1..Len(vs) : vs[k] = <<"(">>})
      - Cardinality({k \in 1..Len(vs) : vs[k] = <<")">>})

\* One more token of an expression is written: an operand, a prefix minus
\* or an opening parenthesis where an operand may start, an operator or a
\* closing parenthesis after an operand.  Parentheses are not nested.
TypeToken(V) ==
    /\ pc = "idle"
    /\ code_editor = <<>>
    /\ output_panel = <<>>
    /\ walk = NoWalk
    /\ syntax_result = NoResult
    /\ Len(tokens) < MaxExprTokens
    /\ \E v \in V :
          /\ IF tokens # <<>> /\ EndsOperand(tokens[Len(tokens)].value)
             THEN /\ v \notin { <<"a">>, <<"1">>, <<"(">> }
                  /\ v = <<")">> => OpenCount(Values(tokens)) > 0
             ELSE /\ v \in { <<"a">>, <<"1">>, <<"(">>, <<"-">> }
                  /\ v = <<"(">> => OpenCount(Values(tokens)) = 0
          /\ tokens' = Append(tokens, TokenFor(v, Len(tokens) + 1))
    /\ UNCHANGED <<code_editor, output_panel, status_bar, pc, code, syntax_result,
                   semantic_result, stages_run, typed, snapshot, walk>>

\* What _parse_expression leaves: the node it returns, the parser's errors,
\* and whether it consumed all the tokens without an error.
ExpressionResult(r) ==
    [valid |-> r.st.errors = <<>> /\ r.st.current_index = Len(r.st.tokens),
     errors |-> r.st.errors, ast |-> r.node]

\* Parser(tokens)._parse_expression()
ParseExpression ==
    /\ pc = "idle"
    /\ code_editor = <<>>
    /\ tokens # <<>>
    /\ syntax_result = NoResult
    /\ syntax_result' = ExpressionResult(Call("_parse_expression", Parser(tokens)))
    /\ UNCHANGED <<code_editor, output_panel, status_bar, pc, code, tokens,
                   semantic_result, stages_run, typed, snapshot, walk>>

\* Expressions written token by token and parsed.
NextExpr ==
    \/ TypeToken(ExprTokenValues)
    \/ ParseExpression

SpecExpr == Init /\ [][NextExpr]_vars

\* Statements the analyzer meets in the scopes of a walk:
\*   int x = 5;   int x = w;   x = 1;   x;   x + 1 = w;
\* (w is declared nowhere)
DeclX5 ==
    ASTNode("VariableDeclaration", <<"i", "n", "t">>,
            <<ASTNode("Identifier", <<"x">>, <<>>), ASTNode("Literal", <<"5">>, <<>>)>>)
DeclXW ==
    ASTNode("VariableDeclaration", <<"i", "n", "t">>,
            <<ASTNode("Identifier", <<"x">>, <<>>), ASTNode("Identifier", <<"w">>, <<>>)>>)
AssignX1 ==
    ASTNode("Assignment", <<"=">>,
            <<ASTNode("Identifier", <<"x">>, <<>>), ASTNode("Literal", <<"1">>, <<>>)>>)
UseX == ASTNode("Identifier", <<"x">>, <<>>)
AssignSumW ==
    ASTNode("Assignment", <<"=">>,
            <<ASTNode("BinaryOp", <<"+">>,
                      <<ASTNode("Identifier", <<"x">>, <<>>), ASTNode("Literal", <<"1">>, <<>>)>>),
              ASTNode("Identifier", <<"w">>, <<>>)>>)
\* The assignment inside a nested scope:
\*   { x = 1; }   while (1) { x = 1; }   if (1) { x = 1; }
BlockAssignX == ASTNode("Block", None, <<AssignX1>>)
WhileAssignX == ASTNode("WhileLoop", None, <<ASTNode("Literal", <<"1">>, <<>>), BlockAssignX>>)
IfAssignX == ASTNode("IfStatement", None, <<ASTNode("Literal", <<"1">>, <<>>), BlockAssignX>>)
ChainNodes ==
    { DeclX, DeclX5, DeclXW, AssignX1, UseX, AssignSumW, BlockAssignX, WhileAssignX, IfAssignX }

\* The number of scopes one walk creates.
MaxScopes == 2

\* The analyzer enters a scoped construct (a block, a loop body, a branch):
\* the first two statements of the Block branch (lines 47-48).
EnterScope ==
    /\ pc = "idle"
    /\ code_editor = <<>>
    /\ output_panel = <<>>
    /\ Len(walk.analyzer.pushed) < MaxScopes
    /\ walk' = [walk EXCEPT !.analyzer = PushScope(@), !.before = walk.analyzer]
    /\ UNCHANGED <<code_editor, output_panel, status_bar, pc, code, tokens,
                   syntax_result, semantic_result, stages_run, typed, snapshot>>

\* The analyzer leaves the construct: the last statement of the Block
\* branch (line 54).
LeaveScope ==
    /\ pc = "idle"
    /\ code_editor = <<>>
    /\ output_panel = <<>>
    /\ Len(walk.analyzer.scopes) > 1
    /\ walk' = [walk EXCEPT !.analyzer = PopScope(@), !.before = walk.analyzer]
    /\ UNCHANGED <<code_editor, output_panel, status_bar, pc, code, tokens,
                   syntax_result, semantic_result, stages_run, typed, snapshot>>

\* The analyzer walking the statements of nested blocks one step at a time.
NextScopes ==
    \/ Visit(ChainNodes)
    \/ EnterScope
    \/ LeaveScope

SpecScopes == Init /\ [][NextScopes]_vars

\* Programs with typed variables, operators on them and preprocessor lines.
\*   a prefix increment of a char inside an assignment: char c='a'; int y; y=++c;
TextPrefixChar == <<"c", "h", "a", "r", " ", "c", "=", "'", "a", "'", ";", "\n", "i", "n", "t", " ", "y", ";", "\n", "y", "=", "+", "+", "c", ";", "\n">>
\*   a prefix increment of an int inside an assignment: int c=1; int y; y=++c;
TextPrefixInt == <<"i", "n", "t", " ", "c", "=", "1", ";", "\n", "i", "n", "t", " ", "y", ";", "\n", "y", "=", "+", "+", "c", ";", "\n">>
\*   a postfix increment of a char as a statement: char c='a'; c++;
TextPostfixChar == <<"c", "h", "a", "r", " ", "c", "=", "'", "a", "'", ";", "\n", "c", "+", "+", ";", "\n">>
\*   a prefix increment of a char as a statement: char c='a'; ++c;
TextPrefixStatement == <<"c", "h", "a", "r", " ", "c", "=", "'", "a", "'", ";", "\n", "+", "+", "c", ";", "\n">>
\*   a char declared with an escaped literal: char c='\n';
TextCharEscape == <<"c", "h", "a", "r", " ", "c", "=", "'", "\\", "n", "'", ";", "\n">>
\*   a char declared with a one-character literal: char c='a';
TextCharA == <<"c", "h", "a", "r", " ", "c", "=", "'", "a", "'", ";", "\n">>
\*   a preprocessor line before a declaration: #include <x> int x;
TextIncludeFirst == <<"#", "i", "n", "c", "l", "u", "d", "e", " ", "<", "x", ">", "\n", "i", "n", "t", " ", "x", ";", "\n">>
\*   a preprocessor line after a declaration: int x; #include <x>
TextIncludeLast == <<"i", "n", "t", " ", "x", ";", "\n", "#", "i", "n", "c", "l", "u", "d", "e", " ", "<", "x", ">", "\n">>
TypeTexts ==
    { TextPrefixChar, TextPrefixInt, TextPostfixChar,
      TextPrefixStatement, TextCharEscape, TextCharA,
      TextIncludeFirst, TextIncludeLast,
      TextAssignChar }

\* The variable of the typed statements, and a literal that fits each type.
NameV == <<"v">>
IdV == ASTNode("Identifier", NameV, <<>>)
InitOf(type_name) ==
    CASE type_name = <<"c", "h", "a", "r">> -> <<"'", "a", "'">>
      [] type_name = <<"b", "o", "o", "l">> -> <<"t", "r", "u", "e">>
      [] type_name = <<"s", "t", "r", "i", "n", "g">> -> <<"\"", "s", "\"">>
      [] OTHER -> <<"1">>

\* T v = <literal>;   for each declaration type T
DeclOf(type_name) ==
    ASTNode("VariableDeclaration", type_name,
            <<IdV, ASTNode("Literal", InitOf(type_name), <<>>)>>)
\* char v = '\n';   v = '\n';   v = 'a';
CharEscape == <<"'", "\\", "n", "'">>
DeclCharEscape ==
    ASTNode("VariableDeclaration", <<"c", "h", "a", "r">>,
            <<IdV, ASTNode("Literal", CharEscape, <<>>)>>)
AssignVEscape == ASTNode("Assignment", <<"=">>, <<IdV, ASTNode("Literal", CharEscape, <<>>)>>)
AssignVA == ASTNode("Assignment", <<"=">>, <<IdV, ASTNode("Literal", <<"'", "a", "'">>, <<>>)>>)
\* ++v   --v   -v   !v   v++   v--   ++v++
PrefixOf(op) == ASTNode("UnaryOp", op, <<IdV>>)
PostfixOf(op) == ASTNode("PostfixOp", op, <<IdV>>)
PrefixOfPostfix == ASTNode("UnaryOp", <<"+", "+">>, <<PostfixOf(<<"+", "+">>)>>)
TypeNodes ==
    { DeclOf(t) : t \in DeclarationTypes }
    \cup { PrefixOf(op) : op \in { <<"+", "+">>, <<"-", "-">>, <<"-">>, <<"!">> } }
    \cup { PostfixOf(op) : op \in { <<"+", "+">>, <<"-", "-">> } }
    \cup { PrefixOfPostfix, DeclCharEscape, AssignVEscape, AssignVA }

\* Programs with typed variables validated one at a time, and the analyzer
\* walking typed declarations and the operators applied to them.
NextTypes ==
    \/ OpenProgram(TypeTexts)
    \/ ClearFields
    \/ ValidateBegin
    \/ LexicalStage
    \/ SyntaxStage
    \/ SemanticStage
    \/ Visit(TypeNodes)

SpecTypes == Init /\ [][NextTypes]_vars

\* Statements as lists of pieces of text, a comment going between any two
\* pieces: one statement of each form, two of them malformed.
\*   a declaration with initializers and two names: int x=1,y;
FormDeclaration ==
    << <<"i", "n", "t", " ">>, <<"x">>, <<"=">>, <<"1">>, <<",">>, <<"y">>, <<";">> >>
\*   a bool declared with a boolean literal: bool b=true;
FormBool ==
    << <<"b", "o", "o", "l", " ">>, <<"b">>, <<"=">>, <<"t", "r", "u", "e">>, <<";">> >>
\*   an assignment of a sum: x=x+1;
FormAssignment ==
    << <<"x">>, <<"=">>, <<"x">>, <<"+">>, <<"1">>, <<";">> >>
\*   a negated parenthesis and a postfix increment: x=-(x++);
FormUnary ==
    << <<"x">>, <<"=">>, <<"-">>, <<"(">>, <<"x">>, <<"+", "+">>, <<")">>, <<";">> >>
\*   an if with both branches: if(x){x;}else{}
FormIf ==
    << <<"i", "f">>, <<"(">>, <<"x">>, <<")">>, <<"{">>, <<"x">>, <<";">>, <<"}">>, <<"e", "l", "s", "e">>, <<"{">>, <<"}">> >>
\*   a while loop: while(x){}
FormWhile ==
    << <<"w", "h", "i", "l", "e">>, <<"(">>, <<"x">>, <<")">>, <<"{">>, <<"}">> >>
\*   a do-while loop: do{}while(x);
FormDoWhile ==
    << <<"d", "o">>, <<"{">>, <<"}">>, <<"w", "h", "i", "l", "e">>, <<"(">>, <<"x">>, <<")">>, <<";">> >>
\*   a for loop: for(int i=0;i<3;++i){}
FormFor ==
    << <<"f", "o", "r">>, <<"(">>, <<"i", "n", "t", " ">>, <<"i">>, <<"=">>, <<"0">>, <<";">>, <<"i">>, <<"<">>, <<"3">>, <<";">>, <<"+", "+">>, <<"i">>, <<")">>, <<"{">>, <<"}">> >>
\*   a switch with a case and a default: switch(x){case 1:x;break;default:;}
FormSwitch ==
    << <<"s", "w", "i", "t", "c", "h">>, <<"(">>, <<"x">>, <<")">>, <<"{">>, <<"c", "a", "s", "e", " ">>, <<"1">>, <<":">>, <<"x">>, <<";">>, <<"b", "r", "e", "a", "k">>, <<";">>, <<"d", "e", "f", "a", "u", "l", "t">>, <<":">>, <<";">>, <<"}">> >>
\*   a return of a name: return x;
FormReturn ==
    << <<"r", "e", "t", "u", "r", "n", " ">>, <<"x">>, <<";">> >>
\*   a declaration that lacks its initializer: int x=;
FormNoInitializer ==
    << <<"i", "n", "t", " ">>, <<"x">>, <<"=">>, <<";">> >>
\*   an assignment that lacks its semicolon: x=1
FormNoSemicolon ==
    << <<"x">>, <<"=">>, <<"1">> >>
StatementForms ==
    { FormDeclaration, FormBool, FormAssignment, FormUnary,
      FormIf, FormWhile, FormDoWhile, FormFor,
      FormSwitch, FormReturn, FormNoInitializer, FormNoSemicolon }

\* The two kinds of comment: /*c*/ and //c up to the end of the line.
BlockCommentText == <<"/", "*", "c", "*", "/">>
LineCommentText == <<"/", "/", "c", "\n">>

\* The text of a list of pieces.
RECURSIVE Join(_)
Join(frags) == IF frags = <<>> THEN <<>> ELSE frags[1] \o Join(Tail(frags))

\* A list with x put after its k-th element.
InsertAt(frags, k, x) == SubSeq(frags, 1, k) \o <<x>> \o SubSeq(frags, k + 1, Len(frags))

\* The files with the statement: as it is, with one comment of either kind
\* between two pieces, and with two comments.
CommentedTexts(frags) ==
    { Join(frags) \o <<"\n">> }
    \cup { Join(InsertAt(frags, k, c)) \o <<"\n">> :
              k \in 0..Len(frags), c \in { BlockCommentText, LineCommentText } }
    \cup { Join(InsertAt(InsertAt(frags, kk[2], LineCommentText), kk[1], BlockCommentText))
              \o <<"\n">> :
              kk \in { p \in (0..Len(frags)) \X (0..Len(frags)) : p[1] <= p[2] } }
CommentTexts == UNION { CommentedTexts(frags) : frags \in StatementForms }

\* Statements with comments in them, validated one at a time.
NextComments ==
    \/ OpenProgram(CommentTexts)
    \/ ClearFields
    \/ ValidateBegin
    \/ LexicalStage
    \/ SyntaxStage
    \/ SemanticStage

SpecComments == Init /\ [][NextComments]_vars

----------------------------------------------------------------------------
(* Properties.                                                             *)

\* The order of the stages of validate_code.
StageNames == <<"lexical", "syntax", "semantic">>

\* The "  - ..." lines of a panel: the diagnostics it shows.
IsDiagnosticLine(l) == l.prefix = "  - "
DiagnosticLines(panel) == SelectSeq(panel, IsDiagnosticLine)

\* The last run has ended and has run at least its first stage.
RunEnded == pc = "idle" /\ stages_run # <<>>

\* The diagnostics of the stage that failed, for a run that ended in stage k.
FailedStageErrors(k) ==
    IF k = 2 THEN syntax_result.errors
    ELSE IF k = 3 THEN semantic_result.errors
    ELSE <<>>

\* C1: the stages run in the order lexical, syntax, semantic; a stage runs
\* only if every stage before it succeeded (no parser after a tokenizer
\* failure, no analyzer after valid = false); the report of a run that failed
\* shows the diagnostics of the stage that failed and no others.
C1_StagesInOrder ==
    /\ Len(stages_run) <= 3
    /\ \A k \in 1..Len(stages_run) :
          /\ stages_run[k].stage = StageNames[k]
          /\ k > 1 => stages_run[k - 1].ok
    /\ Len(stages_run) < 3 => semantic_result = NoResult
    /\ Len(stages_run) < 2 => syntax_result = NoResult
    /\ (Len(stages_run) >= 2 /\ ~syntax_result.valid) => pc = "idle"
    /\ RunEnded =>
          IF stages_run[Len(stages_run)].ok
          THEN Len(stages_run) = 3 /\ DiagnosticLines(output_panel) = <<>>
          ELSE DiagnosticLines(output_panel)
                   = ErrorLines(FailedStageErrors(Len(stages_run)))

\* C1, the case: a run stopped by a syntax diagnostic; the analyzer did not
\* run and the panel shows the parser's diagnostics.
C1_Witness ==
    /\ RunEnded
    /\ Len(stages_run) = 2
    /\ ~stages_run[2].ok
    /\ semantic_result = NoResult
    /\ Len(DiagnosticLines(output_panel)) >= 1

\* The source text "int x; { int x; }", a line each.
ShadowingSource == <<LineIntX, LineOpen, LineIntX, LineClose>>

\* A panel line carrying the message msg about the name text.
HasDiagnostic(panel, msg, text) ==
    \E k \in 1..Len(panel) : panel[k].msg = msg /\ panel[k].text = text

\* C2: for "int x; { int x; }" the report holds no 'already defined'
\* diagnostic: the declaration in the block shadows the outer one.
C2_BlockShadows ==
    (RunEnded /\ typed = ShadowingSource) =>
        ~HasDiagnostic(output_panel, "Variable is already defined in this scope", <<"x">>)

\* The lines of a block that lack their semicolon.
Unterminated == { LineAssignNoSemi, LineDeclNoSemi }

\* The text typed is a block, '{' first and '}' last, of statements of which
\* exactly one lacks its semicolon.
OneMissingSemicolon ==
    /\ Len(typed) >= 3
    /\ typed[1] = LineOpen
    /\ typed[Len(typed)] = LineClose
    /\ \A k \in 2..(Len(typed) - 1) : typed[k] \in Unterminated \cup {LineAssign2}
    /\ Cardinality({k \in 2..(Len(typed) - 1) : typed[k] \in Unterminated}) = 1

\* The nodes the statements of lines k.. of the block leave in the tree: the
\* declaration's node for "int y", the assignment's for "x=2;", none for the
\* expression without semicolon.
RECURSIVE NodesOfLines(_)
NodesOfLines(k) ==
    IF k >= Len(typed) THEN <<>>
    ELSE (IF typed[k] = LineDeclNoSemi
          THEN <<ASTNode("VariableDeclaration", <<"i", "n", "t">>,
                         <<ASTNode("Identifier", <<"y">>, <<>>)>>)>>
          ELSE IF typed[k] = LineAssign2
          THEN <<ASTNode("Assignment", <<"=">>,
                         <<ASTNode("Identifier", <<"x">>, <<>>),
                           ASTNode("Literal", <<"2">>, <<>>)>>)>>
          ELSE <<>>)
         \o NodesOfLines(k + 1)

\* C3: a block in which one statement lacks its semicolon and the rest is
\* well formed gets exactly one syntax diagnostic, the one for the
\* semicolon; the statements after it are parsed into the tree, the closing
\* '}' is matched (the Block node is added, all tokens are consumed) and
\* nothing else is reported.
C3_OneDiagnosticThenResume ==
    (RunEnded /\ OneMissingSemicolon) =>
        /\ Len(stages_run) = 2
        /\ Len(syntax_result.errors) = 1
        /\ syntax_result.errors[1].msg \in
               { "Expected ';' after expression",
                 "Expected ',' or ';' after variable declaration" }
        /\ syntax_result.ast.children
               = NodesOfLines(2) \o <<ASTNode("Block", None, <<>>)>>
        /\ Len(DiagnosticLines(output_panel)) = 1

\* C3, the case: the statement without semicolon is followed by another
\* statement of the block, and the run has reported.
C3_Witness ==
    /\ RunEnded
    /\ OneMissingSemicolon
    /\ Len(typed) = 4
    /\ typed[2] \in Unterminated
    /\ Len(syntax_result.errors) = 1

\* The elements of a sequence.
Range(s) == { s[k] : k \in 1..Len(s) }

\* Whether some pattern of token_specs before the catch-all '.' matches the
\* line at position p.
MatchedByNamedPattern(line, p) ==
    \E k \in 1..(Len(token_specs) - 1) : PatternMatch(k, line, p) > 0

\* C4: when the text holds a character no token pattern matches other than
\* as "anything else" (here '@'), tokenize fails with an error that carries
\* the line and column, and the run has no tokens.
C4_UnmatchedCharacterFails ==
    (Len(stages_run) >= 1 /\ LineAt \in Range(typed)
       /\ ~MatchedByNamedPattern(LineAt, 0)) =>
        /\ ~stages_run[1].ok
        /\ tokens = <<>>
        /\ pc = "idle"

\* The node the analyzer visited last, and the names of its declaration.
LastVisited == walk.visited[Len(walk.visited)]
NameX == <<"x">>
NameY == <<"y">>
NameZ == <<"z">>

\* The diagnostics the last visit appended.
NewErrors ==
    SubSeq(walk.analyzer.errors, Len(walk.before.errors) + 1, Len(walk.analyzer.errors))

\* The last visit left the earlier diagnostics as they were.
ErrorsExtended ==
    /\ Len(walk.analyzer.errors) >= Len(walk.before.errors)
    /\ SubSeq(walk.analyzer.errors, 1, Len(walk.before.errors)) = walk.before.errors

\* The source text "int x; int x;", a line each.
RedeclarationSource == <<LineIntX, LineIntX>>

\* C5: a VariableDeclaration whose name is bound in the current scope adds
\* exactly one 'already defined' diagnostic and changes nothing else, and
\* the walk goes on (the statement after it is analyzed); a declaration in a
\* block of a name bound only in the enclosing scope adds none and leaves
\* the outer symbol alone.  "int x; int x;" passes the parser and the
\* semantic stage reports exactly one 'already defined', for x.
C5_RedeclarationReportedOnce ==
    /\ (walk.visited # <<>> /\ LastVisited.type = "VariableDeclaration"
          /\ AlreadyDefined(walk.before, LastVisited.children[1].value)) =>
            /\ walk.analyzer.errors
                   = Append(walk.before.errors,
                            Diag("Variable is already defined in this scope",
                                 LastVisited.children[1].value, <<>>))
            /\ walk.analyzer.scopes = walk.before.scopes
    /\ (walk.visited # <<>> /\ LastVisited = BlockX) =>
            /\ walk.analyzer.errors = walk.before.errors
            /\ walk.analyzer.scopes = walk.before.scopes
    /\ (RunEnded /\ typed = RedeclarationSource) =>
            /\ Len(stages_run) = 3
            /\ stages_run[2].ok
            /\ semantic_result.errors
                   = << Diag("Variable is already defined in this scope", NameX, <<>>) >>
            /\ DiagnosticLines(output_panel) = ErrorLines(semantic_result.errors)
    /\ (RunEnded /\ typed = RedeclarationSource \o <<LineIntZY>>) =>
            /\ Len(semantic_result.errors) = 2
            /\ semantic_result.errors[2] = Diag("Undefined variable", NameY, <<>>)

\* C5, the case: x is declared, a block declares x again without a
\* diagnostic, and a second declaration of x in the outer scope is reported
\* once.
C5_Witness ==
    /\ walk.visited = <<DeclX, BlockX, DeclX>>
    /\ Len(walk.analyzer.errors) = 1
    /\ Len(walk.before.errors) = 0

\* The source text "int x; x = x + 1;", a line each.
SelfAssignSource == <<LineIntX, LineIncrX>>

\* C6: after an Assignment to an identifier that resolves, the symbol is
\* initialized and the visit has appended no 'used before initialization'
\* for that name, although the right side uses it; "int x; x = x + 1;"
\* reports zero diagnostics.
C6_AssignmentInitializesFirst ==
    /\ (walk.visited # <<>> /\ LastVisited.type = "Assignment"
          /\ LastVisited.children[1].type = "Identifier"
          /\ resolve(walk.before, LastVisited.children[1].value) # 0) =>
            /\ ErrorsExtended
            /\ Diag("Variable is used before initialization",
                    LastVisited.children[1].value, <<>>) \notin Range(NewErrors)
            /\ SymbolAt(walk.analyzer,
                        resolve(walk.analyzer, LastVisited.children[1].value),
                        LastVisited.children[1].value).initialized
    /\ (RunEnded /\ typed = SelfAssignSource) =>
            /\ Len(stages_run) = 3
            /\ \A k \in 1..3 : stages_run[k].ok
            /\ semantic_result.errors = <<>>
            /\ DiagnosticLines(output_panel) = <<>>
            /\ status_bar = "Validation completed successfully"

\* C6, the case: x declared without initializer, then x = x + 1, validated.
C6_Witness ==
    /\ RunEnded
    /\ typed = SelfAssignSource
    /\ Len(stages_run) = 3
    /\ semantic_result.valid

\* The source text "int y; int z = y;", a line each.
UninitializedUseSource == <<LineIntY, LineIntZY>>

\* C7: the use of y in the initializer of a new declaration "int z = y"
\* adds 'Undefined variable' when y resolves nowhere, 'used before
\* initialization' when y resolves to a symbol not yet initialized, and
\* nothing otherwise; a symbol found is marked used.  "int y; int z = y;"
\* reports 'used before initialization' for y.
C7_UseBeforeInitialization ==
    /\ (walk.visited # <<>> /\ LastVisited = DeclZY
          /\ ~AlreadyDefined(walk.before, NameZ)) =>
            IF resolve(walk.before, NameY) = 0
            THEN walk.analyzer.errors
                    = Append(walk.before.errors, Diag("Undefined variable", NameY, <<>>))
            ELSE /\ SymbolAt(walk.analyzer, resolve(walk.analyzer, NameY), NameY).used
                 /\ walk.analyzer.errors
                       = IF SymbolAt(walk.before, resolve(walk.before, NameY), NameY).initialized
                         THEN walk.before.errors
                         ELSE Append(walk.before.errors,
                                     Diag("Variable is used before initialization",
                                          NameY, <<>>))
    /\ (RunEnded /\ typed = UninitializedUseSource) =>
            /\ Len(stages_run) = 3
            /\ HasDiagnostic(output_panel, "Variable is used before initialization", NameY)
            /\ semantic_result.errors
                   = << Diag("Variable is used before initialization", NameY, <<>>) >>

\* C7, the case: "int y; int z = y;" validated, the diagnostic in the panel.
C7_Witness ==
    /\ RunEnded
    /\ typed = UninitializedUseSource
    /\ HasDiagnostic(output_panel, "Variable is used before initialization", NameY)

\* C8: for "char c = 'ab';" the report holds the semantic checker's
\* 'Invalid character literal' diagnostic for c.
C8_InvalidCharLiteralReported ==
    (RunEnded /\ typed = <<LineCharAB>>) =>
        HasDiagnostic(output_panel, "Invalid character literal for variable", <<"c">>)

\* C9: a run on the text of an earlier run, whatever ran in between, ends
\* with the same stages and outcomes and the same panel lines in the same
\* order.
C9_SameTextSameReport ==
    (pc = "idle" /\ output_panel # <<>> /\ snapshot # NoSnapshot
       /\ snapshot.code = code) =>
        /\ output_panel = snapshot.output
        /\ stages_run = snapshot.stages

\* C9, the case: a run noted, a run on other text, then a run on the noted
\* text again, with diagnostics in its report.
C9_Witness ==
    /\ pc = "idle"
    /\ snapshot # NoSnapshot
    /\ snapshot.other_run
    /\ snapshot.code = code
    /\ stages_run # <<>>
    /\ Len(DiagnosticLines(output_panel)) >= 1

RECURSIVE Raises(_)
Raises(node) ==
    \/ node = NoneNode
    \/ node.type \in {"VariableDeclaration", "UnaryOp", "WhileLoop", "DoWhileLoop",
                      "IfStatement"}
         /\ Len(node.children) < 1
    \/ node.type \in {"Assignment", "BinaryOp"} /\ Len(node.children) < 2
    \/ \E k \in 1..Len(node.children) :
          /\ ~(node.type = "VariableDeclaration" /\ k = 1)
          /\ Raises(node.children[k])

\* The names a tree uses (Identifier nodes other than the name child of a
\* declaration) and the names it declares.
RECURSIVE UsedNames(_)
UsedNames(node) ==
    IF node.type = "Identifier" THEN {node.value}
    ELSE UNION { UsedNames(node.children[k]) :
                   k \in IF node.type = "VariableDeclaration"
                         THEN 2..Len(node.children) ELSE 1..Len(node.children) }

RECURSIVE DeclaredNames(_)
DeclaredNames(node) ==
    (IF node.type = "VariableDeclaration" THEN {node.children[1].value} ELSE {})
      \cup UNION { DeclaredNames(node.children[k]) : k \in 1..Len(node.children) }

C12_DiagnosticsCarryPosition ==
    \A k \in 1..Len(output_panel) :
        IsDiagnosticLine(output_panel[k]) =>
            /\ output_panel[k].at # <<>>
            /\ Len(output_panel[k].at) = 2

\* The text without its blanks and newlines, and the values of a token list
\* written one after the other.
IsInk(c) == c \notin Blank \cup {"\n"}
Unblank(text) == SelectSeq(text, IsInk)
RECURSIVE Lexemes(_)
Lexemes(toks) == IF toks = <<>> THEN <<>> ELSE Head(toks).value \o Lexemes(Tail(toks))

\* What a lexeme is by its spelling: a name, a number.
IsName(v) == v[1] \in IdentStart /\ \A k \in 1..Len(v) : v[k] \in WordChar
IsNumber(v) == v[1] \in Digit /\ \A k \in 1..Len(v) : v[k] \in Digit \cup {"."}
BoolWords == { <<"t", "r", "u", "e">>, <<"f", "a", "l", "s", "e">> }

\* The type and value of each token of a list.
Kinds(toks) == [k \in 1..Len(toks) |-> <<toks[k].type, toks[k].value>>]

\* C13: tokenize returns the non-blank lexemes of the text in source order;
\* a reserved word is a KEYWORD, any other name an IDENTIFIER, a number a
\* LITERAL, an operator an OPERATOR, a separator a SEPARATOR; "int x = 5;"
\* gives KEYWORD int, IDENTIFIER x, OPERATOR =, LITERAL 5, SEPARATOR ;.
C13_TokensInSourceOrder ==
    Len(stages_run) >= 1 =>
        /\ stages_run[1].ok
        /\ Lexemes(tokens) = Unblank(code)
        /\ \A k \in 1..Len(tokens) :
              LET v == tokens[k].value
                  t == tokens[k].type
              IN  /\ v \in keywords => t = "KEYWORD"
                  /\ (IsName(v) /\ v \notin keywords \cup BoolWords) => t = "IDENTIFIER"
                  /\ IsNumber(v) => t = "LITERAL"
                  /\ (v \in OperatorPair \/ (Len(v) = 1 /\ v[1] \in OperatorChar))
                        => t = "OPERATOR"
                  /\ (Len(v) = 1 /\ v[1] \in SeparatorChar) => t = "SEPARATOR"
                  /\ k > 1 => \/ tokens[k - 1].line < tokens[k].line
                              \/ /\ tokens[k - 1].line = tokens[k].line
                                 /\ tokens[k - 1].column < tokens[k].column
        /\ code = TextIntX5 =>
              Kinds(tokens) = << <<"KEYWORD", <<"i", "n", "t">> >>,
                                 <<"IDENTIFIER", <<"x">> >>,
                                 <<"OPERATOR", <<"=">> >>,
                                 <<"LITERAL", <<"5">> >>,
                                 <<"SEPARATOR", <<";">> >> >>

\* C13, the case: "int x = 5;" tokenized into its five tokens.
C13_Witness ==
    /\ code = TextIntX5
    /\ Len(stages_run) >= 1
    /\ Len(tokens) = 5

\* The levels of the scopes the rule of the claim creates for a statement
\* analyzed at the given level, in order: one for a Block, one for a
\* ForLoop, one for the body of a While or DoWhile, one for each branch of
\* an if.
RECURSIVE ScopeLevels(_, _), ScopeLevelsFrom(_, _, _)
ScopeLevelsFrom(node, first, level) ==
    IF first > Len(node.children) THEN <<>>
    ELSE ScopeLevels(node.children[first], level)
           \o ScopeLevelsFrom(node, first + 1, level)

ScopeLevels(node, level) ==
    CASE node.type \in {"Block", "ForLoop"} ->
            <<level + 1>> \o ScopeLevelsFrom(node, 1, level + 1)
      [] node.type \in {"WhileLoop", "DoWhileLoop"} ->
            <<level + 1>> \o ScopeLevelsFrom(node, 2, level + 1)
      [] node.type = "IfStatement" ->
            (IF Len(node.children) > 1
             THEN <<level + 1>> \o ScopeLevels(node.children[2], level + 1)
             ELSE <<level + 1>>)
            \o (IF Len(node.children) > 2
                THEN <<level + 1>> \o ScopeLevels(node.children[3], level + 1)
                ELSE <<>>)
      [] OTHER -> <<>>

\* The levels of a chain of scopes.
ChainLevels(a) == [k \in 1..Len(a.scopes) |-> a.scopes[k].level]

\* The scopes the last visit created.
NewPushed ==
    SubSeq(walk.analyzer.pushed, Len(walk.before.pushed) + 1, Len(walk.analyzer.pushed))

\* C14: analyzing a statement leaves the chain of scopes as it was, also
\* when the body produced diagnostics: the current scope is the root scope
\* at level 0 again, every scope created on the way had the level of its
\* parent plus one, and only a top-level declaration adds a name to the
\* root scope.
C14_ScopesRestored ==
    walk.visited # <<>> =>
        /\ Len(walk.analyzer.scopes) = 1
        /\ ChainLevels(walk.analyzer) = ChainLevels(walk.before)
        /\ current_scope(walk.analyzer).level = 0
        /\ NewPushed = ScopeLevels(LastVisited, 0)
        /\ SubSeq(walk.analyzer.pushed, 1, Len(walk.before.pushed)) = walk.before.pushed
        /\ DOMAIN current_scope(walk.analyzer).symbols
              = DOMAIN current_scope(walk.before).symbols
                  \cup (IF LastVisited.type = "VariableDeclaration"
                        THEN {LastVisited.children[1].value} ELSE {})

\* C14, the case: an if with both branches, each a block, analyzed with a
\* diagnostic from its condition; four scopes were created and left.
C14_Witness ==
    /\ walk.visited # <<>>
    /\ LastVisited = IfElseX
    /\ NewPushed = <<1, 2, 1, 2>>
    /\ Len(NewErrors) >= 1
    /\ Len(walk.analyzer.scopes) = 1

\* The node kinds of the children of a Program tree, in order.
ChildKinds(ast) == [k \in 1..Len(ast.children) |-> ast.children[k].type]

\* C15: for "bool c=true; if(c){int a;} else{int a;}" the report holds no
\* 'already defined', and the name a declared in the branches is not bound
\* at the top level: the tree has no declaration of a among the children of
\* the Program.
C15_IfBranchesIndependent ==
    (Len(stages_run) >= 2 /\ code = TextIfElse) =>
        /\ \A k \in 1..Len(syntax_result.ast.children) :
              LET child == syntax_result.ast.children[k]
              IN  child.type = "VariableDeclaration" => child.children[1].value # <<"a">>
        /\ RunEnded =>
              ~HasDiagnostic(output_panel, "Variable is already defined in this scope", <<"a">>)

\* C16: "int x; for(int i=0;i<3;++i){x=i;}" reports no diagnostics: the
\* loop variable resolves in the body of the loop.
C16_ForSharesOneScope ==
    (RunEnded /\ code = TextFor) =>
        /\ Len(stages_run) = 3
        /\ DiagnosticLines(output_panel) = <<>>

\* C17: a for, switch or return statement parsed without a diagnostic is a
\* child of the Program node, of its kind, and the semantic checker reaches
\* it: the undeclared y of "return y;" is reported as undefined.
C17_StatementsReachProgram ==
    /\ (Len(stages_run) >= 2 /\ syntax_result.valid /\ code = TextReturn) =>
          /\ ChildKinds(syntax_result.ast) = <<"ReturnStatement">>
          /\ RunEnded => HasDiagnostic(output_panel, "Undefined variable", <<"y">>)
    /\ (Len(stages_run) >= 2 /\ syntax_result.valid /\ code = TextFor) =>
          ChildKinds(syntax_result.ast) = <<"VariableDeclaration", "ForLoop">>
    /\ (Len(stages_run) >= 2 /\ syntax_result.valid /\ code = TextSwitch) =>
          ChildKinds(syntax_result.ast) = <<"VariableDeclaration", "SwitchStatement">>

\* C18: the one malformed statement "int x=;" causes at most one syntax
\* diagnostic, the parser having skipped to the end of the statement after
\* reporting it.
C18_OneDiagnosticPerStatement ==
    (Len(stages_run) >= 2 /\ code = TextNoInitializer) =>
        /\ ~syntax_result.valid
        /\ Len(syntax_result.errors) <= 1

\* The programs of ProgramTexts with a literal in expression position, the
\* right side of an assignment or the condition of a loop.
LiteralTexts ==
    { TextAssignBool, TextAssignChar, TextAssignString, TextAssignFloat,
      TextWhileTrue, TextWhileOne }

\* The Literal nodes of a tree.
RECURSIVE LiteralCount(_), LiteralsFrom(_, _)
LiteralsFrom(node, first) ==
    IF first > Len(node.children) THEN 0
    ELSE LiteralCount(node.children[first]) + LiteralsFrom(node, first + 1)

LiteralCount(node) ==
    (IF node.type = "Literal" THEN 1 ELSE 0) + LiteralsFrom(node, 1)

\* C19: a numeric, string, char or boolean literal in expression position
\* parses to a Literal node and appends no diagnostic.
C19_LiteralsArePrimaries ==
    (Len(stages_run) >= 2 /\ code \in LiteralTexts) =>
        /\ syntax_result.valid
        /\ syntax_result.errors = <<>>
        /\ LiteralCount(syntax_result.ast) = 1

\* The reference grammar of expressions, read off a list of lexemes from
\* the top: an expression is split at its first top-level "=" (the rest is
\* the right side), otherwise at the last top-level operator of the lowest
\* binary level that occurs (what follows it is of the next level),
\* otherwise it is a prefix operator and its operand, a name, a number or
\* an expression in parentheses.  A top-level token is one outside all
\* parentheses; an operator is binary when an operand ends right before it.
IsOperandEnd(v) == IsName(v) \/ IsNumber(v) \/ v = <<")">>
SplitPoints(vs, ops) ==
    { k \in 2..Len(vs) : /\ vs[k] \in ops
                         /\ IsOperandEnd(vs[k - 1])
                         /\ OpenCount(SubSeq(vs, 1, k - 1)) = 0 }
Least(S) == CHOOSE k \in S : \A j \in S : k <= j
Greatest(S) == CHOOSE k \in S : \A j \in S : k >= j
Enclosed(vs) ==
    /\ Len(vs) >= 2
    /\ vs[1] = <<"(">>
    /\ vs[Len(vs)] = <<")">>
    /\ \A k \in 1..(Len(vs) - 1) : OpenCount(SubSeq(vs, 1, k)) >= 1

RECURSIVE ReferenceTree(_, _)
ReferenceTree(vs, level) ==
    IF vs = <<>> THEN ASTNode("Error", None, <<>>)
    ELSE IF level = 0
    THEN IF SplitPoints(vs, { <<"=">> }) = {} THEN ReferenceTree(vs, 1)
         ELSE ASTNode("Assignment", <<"=">>,
                 << ReferenceTree(SubSeq(vs, 1, Least(SplitPoints(vs, { <<"=">> })) - 1), 1),
                    ReferenceTree(SubSeq(vs, Least(SplitPoints(vs, { <<"=">> })) + 1,
                                         Len(vs)), 0) >>)
    ELSE IF level <= 6
    THEN IF SplitPoints(vs, LevelOps(level)) = {} THEN ReferenceTree(vs, level + 1)
         ELSE ASTNode("BinaryOp", vs[Greatest(SplitPoints(vs, LevelOps(level)))],
                 << ReferenceTree(SubSeq(vs, 1, Greatest(SplitPoints(vs, LevelOps(level))) - 1),
                                  level),
                    ReferenceTree(SubSeq(vs, Greatest(SplitPoints(vs, LevelOps(level))) + 1,
                                         Len(vs)), level + 1) >>)
    ELSE IF vs[1] \in UnaryOps
    THEN ASTNode("UnaryOp", vs[1], << ReferenceTree(Tail(vs), 7) >>)
    ELSE IF Len(vs) = 1 /\ IsName(vs[1]) THEN ASTNode("Identifier", vs[1], <<>>)
    ELSE IF Len(vs) = 1 /\ IsNumber(vs[1]) THEN ASTNode("Literal", vs[1], <<>>)
    ELSE IF Enclosed(vs) THEN ReferenceTree(SubSeq(vs, 2, Len(vs) - 1), 0)
    ELSE ASTNode("Error", None, <<>>)

\* A tree with an Error node in it: the lexemes are no expression.
RECURSIVE HasError(_)
HasError(node) ==
    node.type = "Error" \/ \E k \in 1..Len(node.children) : HasError(node.children[k])

WellFormed(vs) == ~HasError(ReferenceTree(vs, 0))

\* The lexemes a, +, a, *, a and friends.
Lex(word) == [k \in 1..Len(word) |-> <<word[k]>>]
IdA == ASTNode("Identifier", <<"a">>, <<>>)
BinaryOf(op, l, r) == ASTNode("BinaryOp", <<op>>, <<l, r>>)

\* C20: the tree _parse_expression builds for a well-formed expression is
\* the tree of the reference grammar, with no diagnostic and every token
\* consumed: a + a * a is +(a, *(a, a)), a - a - a is -(-(a, a), a),
\* - - a is -(-(a)), and a = a = a is =(a, =(a, a)).
C20_TreeOfReferenceGrammar ==
    syntax_result # NoResult =>
        /\ WellFormed(Values(tokens)) =>
              /\ syntax_result.valid
              /\ syntax_result.ast = ReferenceTree(Values(tokens), 0)
        /\ Values(tokens) = Lex(<<"a", "+", "a", "*", "a">>) =>
              syntax_result.ast = BinaryOf("+", IdA, BinaryOf("*", IdA, IdA))
        /\ Values(tokens) = Lex(<<"a", "-", "a", "-", "a">>) =>
              syntax_result.ast = BinaryOf("-", BinaryOf("-", IdA, IdA), IdA)
        /\ Values(tokens) = Lex(<<"-", "-", "a">>) =>
              syntax_result.ast
                 = ASTNode("UnaryOp", <<"-">>, <<ASTNode("UnaryOp", <<"-">>, <<IdA>>)>>)
        /\ Values(tokens) = Lex(<<"a", "=", "a", "=", "a">>) =>
              syntax_result.ast
                 = ASTNode("Assignment", <<"=">>,
                           <<IdA, ASTNode("Assignment", <<"=">>, <<IdA, IdA>>)>>)

\* C20, the case: a + a * a parsed, the product being the right operand of
\* the sum.
C20_Witness ==
    /\ syntax_result # NoResult
    /\ Values(tokens) = Lex(<<"a", "+", "a", "*", "a">>)
    /\ WellFormed(Values(tokens))
    /\ syntax_result.ast.value = <<"+">>
    /\ syntax_result.ast.children[2].value = <<"*">>

\* The last step of the walk was the visit of a statement: it created no
\* scope and left the chain as long as it was.
VisitedLast ==
    /\ walk.visited # <<>>
    /\ Len(walk.analyzer.scopes) = Len(walk.before.scopes)
    /\ walk.analyzer.pushed = walk.before.pushed

\* The source text "x+1=w;".
TextSumW == <<"x", "+", "1", "=", "w", ";", "\n">>

\* C21: for an Assignment whose left child is not an Identifier the analyzer
\* appends 'Left side of assignment must be a variable' and nothing else: no
\* diagnostic comes from the right side and no symbol of any scope of the
\* chain changes.  The parser builds such a node from "x + 1 = w;".
C21_NonVariableLeftSkipsRight ==
    /\ (walk.visited = <<AssignSumW>>) =>
            parse(tokenize(TextSumW).tokens).ast.children = walk.visited
    /\ (VisitedLast /\ LastVisited.type = "Assignment"
          /\ LastVisited.children[1].type # "Identifier") =>
            /\ walk.analyzer.errors
                   = Append(walk.before.errors,
                            Diag("Left side of assignment must be a variable", None, <<>>))
            /\ walk.analyzer.scopes = walk.before.scopes

\* C21, the case: "x + 1 = w;" is analyzed inside a block where x is bound
\* in the enclosing scope, neither used nor initialized, and w is bound
\* nowhere, so analyzing either side would have left a trace.
C21_Witness ==
    /\ VisitedLast
    /\ LastVisited = AssignSumW
    /\ Len(walk.before.scopes) = 2
    /\ resolve(walk.before, NameX) = 1
    /\ ~SymbolAt(walk.before, 1, NameX).used
    /\ ~SymbolAt(walk.before, 1, NameX).initialized
    /\ resolve(walk.before, <<"w">>) = 0
    /\ Len(NewErrors) = 1

\* The increment/decrement diagnostics among the diagnostics of the last visit.
IsIncrementError(d) == d.msg = "Cannot use increment/decrement operator with non-numeric type"
IncrementErrors == SelectSeq(NewErrors, IsIncrementError)

\* C22: for a prefix UnaryOp ++ or -- whose operand is an identifier that
\* resolves to a symbol, the analyzer appends one increment/decrement
\* diagnostic, naming the declared type, exactly when that type is none of
\* int, float and double (long and short are rejected like char, bool and
\* string); for the other unary operators, for an operand that is not an
\* identifier and for a name that resolves to nothing it appends none.  In
\* "char c='a'; int y; y=++c;" the diagnostic is the whole semantic report,
\* and the same program with int c is valid.
C22_IncrementNeedsNumericType ==
    /\ (VisitedLast /\ LastVisited.type = "UnaryOp") =>
          LET operand == LastVisited.children[1]
              k == IF operand.type = "Identifier" THEN resolve(walk.before, operand.value) ELSE 0
          IN  /\ ErrorsExtended
              /\ IF LastVisited.value \in { <<"+", "+">>, <<"-", "-">> } /\ k # 0
                    /\ SymbolAt(walk.before, k, operand.value).type
                           \notin { <<"i", "n", "t">>, <<"f", "l", "o", "a", "t">>,
                                    <<"d", "o", "u", "b", "l", "e">> }
                 THEN IncrementErrors
                          = << Diag("Cannot use increment/decrement operator with non-numeric type",
                                    SymbolAt(walk.before, k, operand.value).type, <<>>) >>
                 ELSE IncrementErrors = <<>>
    /\ (RunEnded /\ code = TextPrefixChar) =>
          /\ Len(stages_run) = 3
          /\ semantic_result.errors
                 = << Diag("Cannot use increment/decrement operator with non-numeric type",
                           <<"c", "h", "a", "r">>, <<>>) >>
    /\ (RunEnded /\ code = TextPrefixInt) =>
          /\ Len(stages_run) = 3
          /\ semantic_result.valid

\* C22, the case: v is declared long and ++v is rejected.
C22_Witness ==
    /\ VisitedLast
    /\ LastVisited = PrefixOf(<<"+", "+">>)
    /\ resolve(walk.before, NameV) = 1
    /\ SymbolAt(walk.before, 1, NameV).type = <<"l", "o", "n", "g">>
    /\ Len(IncrementErrors) = 1

\* The tokens but the comments, and a diagnostic without its position.
IsCode(token) == token.type # "COMMENT"
Uncommented(toks) == SelectSeq(toks, IsCode)
Unplaced(errors) == [i \in 1..Len(errors) |-> [msg |-> errors[i].msg, text |-> errors[i].text]]

Binders(a, name) == { k \in 1..Len(a.scopes) : name \in DOMAIN a.scopes[k].symbols }

\* C24: resolve returns the symbol of the innermost scope of the chain that
\* binds the name, and not-found only when no scope of the chain binds it.
\* A use of x marks the symbol of the innermost binding scope as used and
\* leaves the symbols of the scopes around it as they were; a use of a name
\* no scope binds is reported undefined.
C24_ResolveInnermostFirst ==
    /\ \A name \in { NameX, <<"w">> } :
          /\ resolve(walk.analyzer, name)
                 = IF Binders(walk.analyzer, name) = {} THEN 0
                   ELSE Greatest(Binders(walk.analyzer, name))
          /\ \A k \in Binders(walk.analyzer, name) :
                SymbolAt(walk.analyzer, k, name).scope_level = walk.analyzer.scopes[k].level
    /\ (VisitedLast /\ LastVisited = UseX) =>
          IF Binders(walk.before, NameX) = {}
          THEN /\ NewErrors = << Diag("Undefined variable", NameX, <<>>) >>
               /\ walk.analyzer.scopes = walk.before.scopes
          ELSE LET k == Greatest(Binders(walk.before, NameX))
               IN  /\ SymbolAt(walk.analyzer, k, NameX).used
                   /\ \A j \in Binders(walk.before, NameX) \ {k} :
                         SymbolAt(walk.analyzer, j, NameX) = SymbolAt(walk.before, j, NameX)

\* C24, the case: x is bound in the root scope and in the block inside it,
\* and a use of x in the block has marked the block's x, not the root's.
C24_Witness ==
    /\ VisitedLast
    /\ LastVisited = UseX
    /\ Binders(walk.before, NameX) = {1, 2}
    /\ SymbolAt(walk.analyzer, 2, NameX).used
    /\ ~SymbolAt(walk.analyzer, 1, NameX).used

\* The invalid-character-literal diagnostics of the last visit.
IsCharLiteralError(d) == d.msg = "Invalid character literal for variable"

\* C25: a literal that initializes a char variable or is assigned to one
\* is accepted when it is a quoted literal of three characters such as 'a'
\* and rejected by the semantic stage with 'Invalid character literal' when
\* it is an escape such as '\n'; both pass the tokenizer and the parser.
\* Stated for the visits of the analyzer and for the programs
\* "char c='\n';", "char c='a';" and "char c; c='a';".
C25_CharLiteralOfThreeCharacters ==
    /\ (VisitedLast /\ LastVisited \in { DeclCharEscape, AssignVEscape, AssignVA }
          /\ (LastVisited.type = "Assignment" =>
                 /\ resolve(walk.before, NameV) # 0
                 /\ SymbolAt(walk.before, resolve(walk.before, NameV), NameV).type
                        = <<"c", "h", "a", "r">>)
          /\ (LastVisited.type = "VariableDeclaration" => resolve(walk.before, NameV) = 0)) =>
            SelectSeq(NewErrors, IsCharLiteralError)
                = IF LastVisited = AssignVA THEN <<>>
                  ELSE << Diag("Invalid character literal for variable", NameV, <<>>) >>
    /\ (RunEnded /\ code = TextCharEscape) =>
          /\ Len(stages_run) = 3
          /\ semantic_result.errors
                 = << Diag("Invalid character literal for variable", <<"c">>, <<>>) >>
    /\ (RunEnded /\ code = TextCharA) =>
          /\ Len(stages_run) = 3
          /\ semantic_result.valid
    /\ (RunEnded /\ code = TextAssignChar) =>
          /\ Len(stages_run) = 3
          /\ semantic_result.valid

\* The parser at cursor i of the tokens, and the cursor a method leaves,
\* whether it returns a node or not.
ParserAt(toks, i) == [Parser(toks) EXCEPT !.current_index = i]
RuleNames ==
    { "_parse_statement", "_parse_variable_declaration", "_parse_expression_statement",
      "_parse_block", "_parse_for_loop", "_parse_do_while_loop", "_parse_while_loop",
      "_parse_if_statement", "_parse_switch_statement", "_parse_case_statement",
      "_parse_default_statement", "_parse_break_statement", "_parse_return_statement",
      "_parse_expression" }
StateAfter(r) == IF "st" \in DOMAIN r THEN r.st ELSE r
CursorAfter(method, st) == StateAfter(Call(method, st)).current_index

\* C26: the cursor never goes back and never passes the end of the tokens,
\* whatever rule is called at whatever cursor; _parse_statement called while
\* tokens remain consumes at least one token, and so does a turn of the loop
\* of _parse_switch_statement (a case, a default, or the tokens skipped
\* after a diagnostic); the loops of _parse_program, _parse_block and of the
\* case and default bodies call _parse_statement at each turn.  parse ends
\* with the cursor at the end of the tokens.
C26_ParserProgress ==
    (Len(stages_run) = 1 /\ stages_run[1].ok) =>
        /\ \A i \in 0..(Len(tokens) - 1) :
              /\ CursorAfter("_parse_statement", ParserAt(tokens, i)) > i
              /\ \A method \in RuleNames :
                    /\ CursorAfter(method, ParserAt(tokens, i)) >= i
                    /\ CursorAfter(method, ParserAt(tokens, i)) <= Len(tokens)
              /\ _skip_comments(ParserAt(tokens, i)).current_index \in i..Len(tokens)
              /\ _synchronize(ParserAt(tokens, i)).current_index \in (i + 1)..Len(tokens)
              /\ tokens[i + 1].value = <<"c", "a", "s", "e">> =>
                    CursorAfter("_parse_case_statement", ParserAt(tokens, i)) > i
              /\ tokens[i + 1].value = <<"d", "e", "f", "a", "u", "l", "t">> =>
                    CursorAfter("_parse_default_statement", ParserAt(tokens, i)) > i
        /\ CursorAfter("_parse_statement", ParserAt(tokens, Len(tokens))) = Len(tokens)
        /\ _parse_program(Parser(tokens)).current_index = Len(tokens)

\* C26, the case: the tokens of the switch statement are about to be
\* parsed; the statement at the first token takes them all, and the
\* statement at the ")" takes that one token and reports it.
C26_Witness ==
    /\ Len(stages_run) = 1
    /\ stages_run[1].ok
    /\ code = Join(FormSwitch) \o <<"\n">>
    /\ CursorAfter("_parse_statement", ParserAt(tokens, 0)) = Len(tokens)
    /\ tokens[4].value = <<")">>
    /\ CursorAfter("_parse_statement", ParserAt(tokens, 3)) = 4
    /\ Len(Call("_parse_statement", ParserAt(tokens, 3)).errors) = 1

\* The last step of the walk was the visit of a block, a loop or an if with
\* the assignment in its body: the chain is as long as before, and the
\* scopes of the body have been created and left.
VisitedNestedAssignment ==
    /\ walk.visited # <<>>
    /\ LastVisited \in { BlockAssignX, WhileAssignX, IfAssignX }
    /\ Len(walk.analyzer.scopes) = Len(walk.before.scopes)
    /\ Len(walk.analyzer.pushed) > Len(walk.before.pushed)

\* C27: the flags of a symbol only ever go from false to true.  In every
\* step of the walk (a visit, entering a scope, leaving one) each symbol of
\* a scope that stays in the chain keeps its type and level, and its
\* initialized and used flags stay true once true.  An assignment to x made
\* inside a block, a loop body or an if branch leaves the x of the enclosing
\* scope initialized after the inner scopes are gone, and a use of an
\* initialized x adds no diagnostic.
C27_FlagsMonotone ==
    /\ \A k \in 1..Len(walk.before.scopes) :
          k <= Len(walk.analyzer.scopes) =>
              \A name \in DOMAIN walk.before.scopes[k].symbols :
                  /\ name \in DOMAIN walk.analyzer.scopes[k].symbols
                  /\ SymbolAt(walk.analyzer, k, name).type = SymbolAt(walk.before, k, name).type
                  /\ SymbolAt(walk.analyzer, k, name).scope_level
                         = SymbolAt(walk.before, k, name).scope_level
                  /\ SymbolAt(walk.before, k, name).initialized
                         => SymbolAt(walk.analyzer, k, name).initialized
                  /\ SymbolAt(walk.before, k, name).used
                         => SymbolAt(walk.analyzer, k, name).used
    /\ (VisitedNestedAssignment /\ resolve(walk.before, NameX) # 0) =>
          /\ resolve(walk.analyzer, NameX) = resolve(walk.before, NameX)
          /\ SymbolAt(walk.analyzer, resolve(walk.before, NameX), NameX).initialized
          /\ NewErrors = <<>>
    /\ (VisitedLast /\ LastVisited = UseX /\ resolve(walk.before, NameX) # 0
          /\ SymbolAt(walk.before, resolve(walk.before, NameX), NameX).initialized) =>
          NewErrors = <<>>

\* C27, the case: x is declared without a value, assigned inside a while
\* loop's body, and used after the loop without a diagnostic.
C27_Witness ==
    /\ walk.visited = <<DeclX, WhileAssignX, UseX>>
    /\ walk.analyzer.pushed = <<1, 2>>
    /\ Len(walk.analyzer.scopes) = 1
    /\ walk.analyzer.errors = <<>>
    /\ SymbolAt(walk.analyzer, 1, NameX).initialized
    /\ SymbolAt(walk.analyzer, 1, NameX).used

\* The source text "int x; int x=5; x;", a line each.
TextRedeclared ==
    <<"i", "n", "t", " ", "x", ";", "\n", "i", "n", "t", " ", "x", "=", "5", ";", "\n", "x", ";", "\n">>

\* C28: a VariableDeclaration of a name the current scope binds adds the
\* 'already defined' diagnostic and nothing else: the symbols of every scope
\* are as before (type, initialized, used), and the initializer is not
\* analyzed, so the undeclared w of "int x = w;" is not reported and the 5 of
\* "int x = 5;" does not initialize x.  For "int x; int x = 5; x;" the
\* diagnostics are 'already defined' and then 'used before initialization'.
C28_RedeclarationSkipsInitializer ==
    /\ (VisitedLast /\ LastVisited.type = "VariableDeclaration"
          /\ Len(LastVisited.children) = 2
          /\ LastVisited.children[1].value \in DOMAIN current_scope(walk.before).symbols) =>
            /\ NewErrors = << Diag("Variable is already defined in this scope",
                                   LastVisited.children[1].value, <<>>) >>
            /\ ErrorsExtended
            /\ walk.analyzer.scopes = walk.before.scopes
    /\ (walk.visited = <<DeclX, DeclX5, UseX>> /\ walk.analyzer.pushed = <<>>) =>
            /\ parse(tokenize(TextRedeclared).tokens).ast.children = walk.visited
            /\ walk.analyzer.errors
                   = << Diag("Variable is already defined in this scope", NameX, <<>>),
                        Diag("Variable is used before initialization", NameX, <<>>) >>

\* C28, the case: x is declared without a value in a block, "int x = w;"
\* follows in the same block, and x is still neither initialized nor used.
C28_Witness ==
    /\ VisitedLast
    /\ LastVisited = DeclXW
    /\ Len(walk.before.scopes) = 2
    /\ NameX \in DOMAIN current_scope(walk.before).symbols
    /\ ~SymbolAt(walk.analyzer, 2, NameX).initialized
    /\ ~SymbolAt(walk.analyzer, 2, NameX).used
    /\ Len(NewErrors) = 1

\* The directive of the two programs, as the tokenizer delivers it.
IncludeDirective == <<"#", "i", "n", "c", "l", "u", "d", "e", " ", "<", "x", ">">>

\* C29: the parser does not skip a PREPROCESSOR token.  For "#include <x>"
\* before or after "int x;" the tokenizer delivers the directive as one
\* token, the parser reports it as 'Unexpected token' at its line and
\* builds the declaration alone, the result is invalid, and the run ends
\* after the syntax stage without a semantic result.
C29_DirectiveIsUnexpected ==
    /\ (Len(stages_run) >= 1 /\ code \in { TextIncludeFirst, TextIncludeLast }) =>
          /\ stages_run[1].ok
          /\ Len(SelectSeq(tokens, LAMBDA t : t.type = "PREPROCESSOR")) = 1
          /\ \A k \in 1..Len(tokens) :
                tokens[k].type = "PREPROCESSOR" => tokens[k].value = IncludeDirective
    /\ (Len(stages_run) >= 2 /\ code \in { TextIncludeFirst, TextIncludeLast }) =>
          /\ ~syntax_result.valid
          /\ syntax_result.errors
                 = << Diag("Unexpected token", IncludeDirective,
                           <<(IF code = TextIncludeFirst THEN 1 ELSE 2), 1>>) >>
          /\ ChildKinds(syntax_result.ast) = <<"VariableDeclaration">>
    /\ (RunEnded /\ code \in { TextIncludeFirst, TextIncludeLast }) =>
          /\ Len(stages_run) = 2
          /\ ~stages_run[2].ok
          /\ semantic_result = NoResult

\* C29, the case: the run on "#include <x>" and "int x;" has ended, in
\* its second stage, with one diagnostic in the report.
C29_Witness ==
    /\ RunEnded
    /\ code = TextIncludeFirst
    /\ Len(stages_run) = 2
    /\ Len(DiagnosticLines(output_panel)) = 1

\* C30: the numeric-type restriction of prefix ++ and -- does not apply to
\* the postfix operators.  A PostfixOp on a declared and initialized v of
\* any type adds no diagnostic, while the UnaryOp ++ or -- on a v of type
\* char, bool, string, long or short adds the increment/decrement
\* diagnostic; the program "char c='a'; c++;" is valid through the semantic
\* stage, and "char c='a'; ++c;" ends in the semantic stage with the
\* increment/decrement diagnostic.
C30_PostfixUnrestricted ==
    /\ (VisitedLast /\ LastVisited.type \in { "PostfixOp", "UnaryOp" }
          /\ LastVisited.value \in { <<"+", "+">>, <<"-", "-">> }
          /\ LastVisited.children = <<IdV>>
          /\ resolve(walk.before, NameV) # 0) =>
            LET sym == SymbolAt(walk.before, resolve(walk.before, NameV), NameV)
            IN  IF LastVisited.type = "PostfixOp"
                THEN sym.initialized => NewErrors = <<>>
                ELSE sym.type \in { <<"c", "h", "a", "r">>, <<"b", "o", "o", "l">>,
                                    <<"s", "t", "r", "i", "n", "g">>, <<"l", "o", "n", "g">>,
                                    <<"s", "h", "o", "r", "t">> }
                        => Len(IncrementErrors) = 1
    /\ (RunEnded /\ code = TextPostfixChar) =>
          /\ Len(stages_run) = 3
          /\ semantic_result.valid
          /\ semantic_result.errors = <<>>
    /\ (RunEnded /\ code = TextPrefixStatement) =>
          /\ Len(stages_run) = 3
          /\ semantic_result.errors
                 = << Diag("Cannot use increment/decrement operator with non-numeric type",
                           <<"c", "h", "a", "r">>, <<>>) >>

====
